---- MODULE Spec2Model ----
(***************************************************************************)
(* Verification model of the dimensio compression library:                 *)
(*   - CompressionPipeline (core/pipeline.py) with its step chain,         *)
(*   - OptimizerProgress and the update strategies (core/progress.py,      *)
(*     core/update.py),                                                    *)
(*   - the dimension-selection, range-compression and projection steps.    *)
(* Several specifications share the variables below; each specification    *)
(* drives one component and keeps the other components idle.               *)
(***************************************************************************)
EXTENDS Integers, Sequences, FiniteSets, TLC

VARIABLES
    steps,              \* CompressionPipeline.steps (records, one per step object)
    original_space,     \* CompressionPipeline.original_space
    space_after_steps,  \* CompressionPipeline.space_after_steps
    sample_space,       \* CompressionPipeline.sample_space
    surrogate_space,    \* CompressionPipeline.surrogate_space
    unprojected_space,  \* CompressionPipeline.unprojected_space
    sampling_strategy,  \* CompressionPipeline.sampling_strategy
    progress,           \* CompressionPipeline.progress (OptimizerProgress)
    last,               \* observation of the last pipeline call (arguments, outcome)
    compressed,         \* outcome of the most recent compress_space run: "never", "ok", "raised"
    quant,              \* a QuantizationProjectionStep over one integer parameter, and a point
    embed,              \* a REMBO / HesBO step with its two memo caches, and the last call
    boundary,           \* a BoundaryRangeStep over one numeric parameter, and its output
    selection,          \* a dimension-selection step, its input space and its last compress
    factory,            \* the last call of the step factory and its outcome
    mixed,              \* a MixedRangeSamplingStrategy and its last update_probabilities call
    adaptstep,          \* an AdaptiveDimensionStep, the progress it is shown and its last update call
    quantupd,           \* an adaptive QuantizationProjectionStep, the progress it is shown and its last update call
    progop,             \* observation of the last call that may touch the pipeline progress
    compressor,         \* the Compressor facade and its compression-event log
    rangestep,          \* a range-compression step of one of the four variants, with its filling strategy
    e2e,                \* a Compressor over [importance-based selection, boundary range] with parameter bounds
    pointop             \* the last point conversion of the pipeline

pipevars == <<steps, original_space, space_after_steps, sample_space, surrogate_space,
              unprojected_space, sampling_strategy, progress, last, compressed>>

vars == <<pipevars, quant, embed, boundary, selection, factory, mixed, adaptstep, quantupd, progop, compressor, rangestep, e2e, pointop>>

\* what the operations of one component leave alone
notpipe == <<quant, embed, boundary, selection, factory, mixed, adaptstep, quantupd, progop, compressor, rangestep, e2e, pointop>>

notquant == <<pipevars, embed, boundary, selection, factory, mixed, adaptstep, quantupd, progop, compressor, rangestep, e2e, pointop>>

notembed == <<pipevars, quant, boundary, selection, factory, mixed, adaptstep, quantupd, progop, compressor, rangestep, e2e, pointop>>

notboundary == <<pipevars, quant, embed, selection, factory, mixed, adaptstep, quantupd, progop, compressor, rangestep, e2e, pointop>>

notselection == <<pipevars, quant, embed, boundary, factory, mixed, adaptstep, quantupd, progop, compressor, rangestep, e2e, pointop>>

notfactory == <<pipevars, quant, embed, boundary, selection, mixed, adaptstep, quantupd, progop, compressor, rangestep, e2e, pointop>>

notmixed == <<pipevars, quant, embed, boundary, selection, factory, adaptstep, quantupd, progop, compressor, rangestep, e2e, pointop>>

notadaptstep == <<pipevars, quant, embed, boundary, selection, factory, mixed, quantupd, progop, compressor, rangestep, e2e, pointop>>

notquantupd == <<pipevars, quant, embed, boundary, selection, factory, mixed, adaptstep, progop, compressor, rangestep, e2e, pointop>>

notprogop == <<pipevars, quant, embed, boundary, selection, factory, mixed, adaptstep, quantupd, compressor, rangestep, e2e, pointop>>

notpipeprogop == <<quant, embed, boundary, selection, factory, mixed, adaptstep, quantupd, compressor, rangestep, e2e, pointop>>

notcompressor == <<pipevars, quant, embed, boundary, selection, factory, mixed, adaptstep, quantupd, progop, rangestep, e2e, pointop>>

notrangestep == <<pipevars, quant, embed, boundary, selection, factory, mixed, adaptstep, quantupd, progop, compressor, e2e, pointop>>

note2e == <<pipevars, quant, embed, boundary, selection, factory, mixed, adaptstep, quantupd, progop, compressor, rangestep, pointop>>

notpointop == <<pipevars, quant, embed, boundary, selection, factory, mixed, adaptstep, quantupd, progop, compressor, rangestep, e2e>>

(***************************************************************************)
(* Bounds of the model.                                                    *)
(***************************************************************************)
NParams == 3    \* number of parameters of the caller's space
MaxVal == 2     \* incumbent objective values reported by a history: 1..MaxVal
MaxIter == 6    \* cap on OptimizerProgress.iteration
MaxTopk == 5    \* cap on the target size an adaptive step may grow to
MaxBound == 6   \* integer parameter bounds lie in -MaxBound..MaxBound
MaxNumValues == 5   \* max_num_values of a quantization step: 2..MaxNumValues
LowGrid == 1    \* low-dimensional coordinates are k / LowGrid, k in -LowGrid..LowGrid

(***************************************************************************)
(* Parameter spaces.  A parameter name is a record [b, i]: "p" i is the    *)
(* caller's parameter p_i, "q" i is the quantized "p_i|q", "hesbo" i and   *)
(* "kpca" i are synthetic coordinates.  A space carries its ordered names  *)
(* and whether a range compression narrowed it.  NoneSpace is Python None. *)
(***************************************************************************)
PName(i) == [b |-> "p", i |-> i]

\* Body applied to value, value being computed once
With(value, Body(_)) == CHOOSE y \in {Body(x) : x \in {value}} : TRUE

MkSpace(names, narrowed) == [none |-> FALSE, names |-> names, narrowed |-> narrowed]

NoneSpace == [none |-> TRUE, names |-> <<>>, narrowed |-> FALSE]

CallerSpace == MkSpace([i \in 1..NParams |-> PName(i)], FALSE)

NumParams(space) == Len(space.names)

\* bool(space): None is falsy; every space of the model has a parameter.
Truthy(space) == ~space.none

(***************************************************************************)
(* Histories.  NoHistory is None; an empty History has n = 0; a non-empty  *)
(* one reports its incumbent (best) objective value.                       *)
(***************************************************************************)
NoHistory == [none |-> TRUE, n |-> 0, inc |-> 0]

EmptyHistory == [none |-> FALSE, n |-> 0, inc |-> 0]

MkHistory(v) == [none |-> FALSE, n |-> 1, inc |-> v]

Histories == {NoHistory, EmptyHistory} \cup {MkHistory(v) : v \in 1..MaxVal}

\* bool(history): History defines __len__.
HistTruthy(h) == ~h.none /\ h.n > 0

\* The space_history argument of compress_space: None, [] or [history].
NoList == [none |-> TRUE, hs |-> <<>>]

HistList(hs) == [none |-> FALSE, hs |-> hs]

HistLists == {NoList, HistList(<<>>)} \cup {HistList(<<h>>) : h \in Histories \ {NoHistory}}

ListTruthy(l) == ~l.none /\ Len(l.hs) > 0

\* The histories of a list that carry observations (extract_top_samples_from_history
\* skips empty ones).
RECURSIVE NonEmptyOf(_)
NonEmptyOf(hs) ==
    IF hs = <<>> THEN <<>>
    ELSE IF Head(hs).n > 0 THEN <<Head(hs)>> \o NonEmptyOf(Tail(hs))
    ELSE NonEmptyOf(Tail(hs))

(***************************************************************************)
(* OptimizerProgress (core/progress.py).  best_value_history is only       *)
(* appended to and read by no operation of the pipeline (get_recent_trend  *)
(* alone reads it): the model keeps its length.                            *)
(***************************************************************************)
NoValue == 0    \* last_best_value is None (incumbent values are >= 1)

ProgressInit ==
    [iteration |-> 0, best_value_history_len |-> 0, improvement_count |-> 0,
     stagnation_count |-> 0, last_best_value |-> NoValue, minimize |-> TRUE]

\* faulty variant of OptimizerProgress.update: the iteration counter is not advanced
ProgressUpdate_NoCount(p, current_best_value, minimize) ==
    [p EXCEPT !.minimize = minimize, !.last_best_value = current_best_value,
              !.best_value_history_len = p.best_value_history_len + 1]

\* OptimizerProgress.update(current_best_value, minimize)
ProgressUpdate(p, current_best_value, minimize) ==
    LET improved == IF minimize THEN current_best_value < p.last_best_value
                    ELSE current_best_value > p.last_best_value
    IN [iteration |-> p.iteration + 1,
        minimize |-> minimize,
        improvement_count |->
            IF p.last_best_value # NoValue
            THEN (IF improved THEN p.improvement_count + 1 ELSE 0)
            ELSE 0,
        stagnation_count |->
            IF p.last_best_value # NoValue
            THEN (IF improved THEN 0 ELSE p.stagnation_count + 1)
            ELSE 0,
        last_best_value |-> current_best_value,
        best_value_history_len |-> p.best_value_history_len + 1]

\* OptimizerProgress.update_from_history(history)
update_from_history(p, history) ==
    IF history.none \/ history.n = 0 THEN p
    ELSE IF history.inc = NoValue THEN p        \* get_incumbent_value() is None
    ELSE ProgressUpdate(p, history.inc, TRUE)

\* OptimizerProgress.reset(): minimize is left as it is
ProgressReset(p) == [ProgressInit EXCEPT !.minimize = p.minimize]

has_improvement(p, threshold) == p.improvement_count >= threshold

is_stagnant(p, threshold) == p.stagnation_count >= threshold

should_periodic_update(p, period) == p.iteration > 0 /\ p.iteration % period = 0

(***************************************************************************)
(* Update strategies (core/update.py).  A strategy is a record            *)
(* [name, period, stagnation, improvement]; a threshold of 0 in a hybrid   *)
(* strategy is None (sub-strategy absent).  NoStrategy is None.            *)
(***************************************************************************)
NoStrategy == [name |-> "none", period |-> 1, stagnation |-> 0, improvement |-> 0]

Periodic(period) == [name |-> "periodic", period |-> period, stagnation |-> 0, improvement |-> 0]

Stagnation(t) == [name |-> "stagnation", period |-> 1, stagnation |-> t, improvement |-> 0]

Improvement(t) == [name |-> "improvement", period |-> 1, stagnation |-> 0, improvement |-> t]

Hybrid(period, st, im) == [name |-> "hybrid", period |-> period, stagnation |-> st, improvement |-> im]

\* CompositeUpdateStrategy(*strategies)
Composite(strategies) == [name |-> "composite", strategies |-> strategies]

\* UpdateStrategy.should_update(progress, history)
RECURSIVE should_update(_, _)
should_update(u, p) ==
    CASE u.name = "periodic" -> should_periodic_update(p, u.period)
      [] u.name = "stagnation" -> is_stagnant(p, u.stagnation)
      [] u.name = "improvement" -> has_improvement(p, u.improvement)
      [] u.name = "hybrid" ->
            \/ should_periodic_update(p, u.period)
            \/ (u.stagnation > 0 /\ is_stagnant(p, u.stagnation))
            \/ (u.improvement > 0 /\ has_improvement(p, u.improvement))
      [] u.name = "composite" ->
            \E k \in 1..Len(u.strategies) : should_update(u.strategies[k], p)
      [] OTHER -> FALSE

\* int(current_topk * reduction_ratio), the ratio being rnum / rden
RatioOf(current_topk, rnum, rden) == (current_topk * rnum) \div rden

Max2(a, b) == IF a >= b THEN a ELSE b

Min2(a, b) == IF a <= b THEN a ELSE b

\* PeriodicUpdateStrategy.compute_new_topk / ImprovementUpdateStrategy.compute_new_topk
ReduceTopk(current_topk, rnum, rden, min_dimensions) ==
    Max2(min_dimensions, current_topk - RatioOf(current_topk, rnum, rden))

\* faulty variant of IncreaseTopk: max_dimensions is not applied
IncreaseTopk_Uncapped(current_topk, rnum, rden, max_dimensions) ==
    current_topk + RatioOf(current_topk, rnum, rden)

\* StagnationUpdateStrategy.compute_new_topk (max_dimensions = 0 is None)
IncreaseTopk(current_topk, rnum, rden, max_dimensions) ==
    LET new_topk == current_topk + RatioOf(current_topk, rnum, rden)
    IN IF max_dimensions # 0 THEN Min2(new_topk, max_dimensions) ELSE new_topk

\* UpdateStrategy.compute_new_topk(current_topk, reduction_ratio, min, max, progress)
RECURSIVE compute_new_topk(_, _, _, _, _, _, _)
compute_new_topk(u, current_topk, rnum, rden, min_dimensions, max_dimensions, p) ==
    CASE u.name = "periodic" -> ReduceTopk(current_topk, rnum, rden, min_dimensions)
      [] u.name = "improvement" -> ReduceTopk(current_topk, rnum, rden, min_dimensions)
      [] u.name = "stagnation" -> IncreaseTopk(current_topk, rnum, rden, max_dimensions)
      [] u.name = "hybrid" ->
            IF u.stagnation > 0 /\ is_stagnant(p, u.stagnation)
            THEN IncreaseTopk(current_topk, rnum, rden, max_dimensions)
            ELSE IF u.improvement > 0 /\ has_improvement(p, u.improvement)
            THEN ReduceTopk(current_topk, rnum, rden, min_dimensions)
            ELSE ReduceTopk(current_topk, rnum, rden, min_dimensions)
      [] u.name = "composite" ->
            LET F == {k \in 1..Len(u.strategies) : should_update(u.strategies[k], p)}
            IN IF F = {} THEN current_topk
               ELSE compute_new_topk(u.strategies[CHOOSE k \in F : \A j \in F : k <= j],
                                     current_topk, rnum, rden, min_dimensions,
                                     max_dimensions, p)
      [] OTHER -> current_topk

(***************************************************************************)
(* Importance calculators (steps/dimension/importance.py).  The attribution *)
(* and correlation estimators are external numerical routines: the model    *)
(* takes their scores from a fixed table that depends on the history's      *)
(* incumbent, so that different histories rank the parameters differently.  *)
(* Lower score = more important.                                            *)
(***************************************************************************)
IsNumeric(name) == name.b # "c"

\* extract_numeric_hyperparameters(space): the numeric names, in order
extract_numeric_hyperparameters(names) == SelectSeq(names, IsNumeric)

\* position of a name in a list of names (list.index)
IndexOf(names, name) == CHOOSE k \in 1..Len(names) : names[k] = name

NameIn(names, name) == \E k \in 1..Len(names) : names[k] = name

OracleScore(h, name) == IF h.inc % 2 = 1 THEN 0 - name.i ELSE name.i - (NParams + 1)

NoImportances == [none |-> TRUE, v |-> <<>>]

Importances(v) == [none |-> FALSE, v |-> v]

\* insertion of index k into a list of indices ordered by (score, index)
RECURSIVE InsertByScore(_, _, _)
InsertByScore(sorted, k, v) ==
    IF sorted = <<>> THEN <<k>>
    ELSE IF v[k] < v[Head(sorted)] \/ (v[k] = v[Head(sorted)] /\ k < Head(sorted))
         THEN <<k>> \o sorted
         ELSE <<Head(sorted)>> \o InsertByScore(Tail(sorted), k, v)

RECURSIVE ArgSortUpTo(_, _)
ArgSortUpTo(v, n) ==
    IF n = 0 THEN <<>> ELSE InsertByScore(ArgSortUpTo(v, n - 1), n, v)

\* np.argsort(v): the positions of v in ascending order of value
ArgSort(v) == ArgSortUpTo(v, Len(v))

\* first n elements of a sequence (s[:n])
Prefix(s, n) == SubSeq(s, 1, Min2(n, Len(s)))

\* importances_per_task and task_names are None (FALSE, 0) unless several tasks
\* were given; task_names is kept by its length
NoCache == [valid |-> FALSE, n_features |-> 0, imp |-> <<>>,
            importances_per_task |-> FALSE, task_names |-> 0]

\* SHAPImportanceCalculator.calculate_importances(input_space, space_history, ...):
\* returns [raised, imp, cache]; a cached result is reused whenever the number of
\* numeric parameters is unchanged.
SHAPCalculate(cache, names, hl) ==
    LET numeric == extract_numeric_hyperparameters(names)
        cache_valid == cache.valid /\ cache.n_features = Len(numeric)
        used == IF hl.none THEN <<>> ELSE NonEmptyOf(hl.hs)
    IN IF cache_valid
       THEN [raised |-> FALSE, imp |-> Importances(cache.imp), cache |-> cache]
       ELSE IF hl.none
       THEN [raised |-> TRUE, imp |-> NoImportances, cache |-> cache]   \* len(None)
       ELSE IF used = <<>>
       THEN [raised |-> FALSE, imp |-> NoImportances, cache |-> cache]
       ELSE LET v == [k \in 1..Len(numeric) |-> OracleScore(used[1], numeric[k])]
            IN [raised |-> FALSE, imp |-> Importances(v),
                cache |-> [valid |-> TRUE, n_features |-> Len(numeric), imp |-> v,
                           importances_per_task |-> Len(used) > 1,
                           task_names |-> IF Len(hl.hs) > 1 THEN Len(hl.hs) ELSE 0]]

\* CorrelationImportanceCalculator.calculate_importances
CorrCalculate(names, hl) ==
    LET numeric == extract_numeric_hyperparameters(names)
        used == IF hl.none THEN <<>> ELSE NonEmptyOf(hl.hs)
    IN IF hl.none
       THEN [raised |-> TRUE, imp |-> NoImportances]      \* enumerate(None)
       ELSE IF used = <<>>
       THEN [raised |-> FALSE, imp |-> Importances([k \in 1..Len(numeric) |-> 1])]
       ELSE [raised |-> FALSE,
             imp |-> Importances([k \in 1..Len(numeric) |-> OracleScore(used[1], numeric[k])])]

(***************************************************************************)
(* Dimension selection steps (steps/dimension).  A step is a record:       *)
(*   kind in {"shap", "corr", "adaptive", "expert"}, strategy, topk        *)
(*   (shap/corr), current_topk ... update_strategy (adaptive), calc (the   *)
(*   importance calculator of an adaptive step), cache (the SHAP           *)
(*   calculator's cache), expert_params, exclude_params,                   *)
(*   selected_param_names (<<>> is None), input_space, output_space.       *)
(***************************************************************************)
DimStep(kind, strategy, topk, calc, upd, expert, exclude) ==
    [kind |-> kind, strategy |-> strategy, topk |-> topk,
     current_topk |-> topk, initial_topk |-> topk,
     rnum |-> 1, rden |-> 2, min_dimensions |-> 1, max_dimensions |-> 0,
     update_strategy |-> upd, calc |-> calc, cache |-> NoCache,
     expert_params |-> expert, exclude_params |-> exclude,
     selected_param_names |-> <<>>,
     input_space |-> NoneSpace, output_space |-> NoneSpace]

AllIndices(names) == [k \in 1..Len(names) |-> k]

\* SHAPDimensionStep._select_parameters: [raised, idx, cache]; the numeric parameters
\* in order of importance, or every index when the step has nothing to rank by
SelectSHAP(step, names, hl) ==
    LET numeric == extract_numeric_hyperparameters(names)
        all == [raised |-> FALSE, idx |-> AllIndices(names), cache |-> step.cache]
    IN IF step.topk <= 0 THEN all
       ELSE IF ~ListTruthy(hl) THEN all
       ELSE LET r == SHAPCalculate(step.cache, names, hl)
            IN IF r.raised THEN [raised |-> TRUE, idx |-> <<>>, cache |-> r.cache]
               ELSE IF r.imp.none \/ Len(r.imp.v) = 0 THEN all
               ELSE [raised |-> FALSE,
                     idx |-> [k \in 1..Len(numeric) |->
                                 IndexOf(names, numeric[ArgSort(r.imp.v)[k]])],
                     cache |-> r.cache]

\* CorrelationDimensionStep._select_parameters: [raised, idx, cache]; the top_k
\* numeric parameters, or every index when the step has nothing to rank by
SelectCorrelation(step, names, hl) ==
    LET numeric == extract_numeric_hyperparameters(names)
        all == [raised |-> FALSE, idx |-> AllIndices(names), cache |-> step.cache]
    IN IF step.topk <= 0 THEN all
       ELSE IF ~ListTruthy(hl) THEN all
       ELSE LET r == CorrCalculate(names, hl)
                top_k == Min2(step.topk, Len(numeric))
            IN IF r.raised THEN [raised |-> TRUE, idx |-> <<>>, cache |-> step.cache]
               ELSE IF r.imp.none \/ Len(r.imp.v) = 0 THEN all
               ELSE IF top_k = 0 THEN all
               ELSE [raised |-> FALSE,
                     idx |-> [k \in 1..top_k |->
                                 IndexOf(names, numeric[Prefix(ArgSort(r.imp.v), top_k)[k]])],
                     cache |-> step.cache]

\* ExpertDimensionStep._select_parameters
SelectExpert(step, names) ==
    [raised |-> FALSE,
     idx |-> IF step.expert_params = <<>> THEN AllIndices(names) ELSE <<>>,
     cache |-> step.cache]

\* the target_topk AdaptiveDimensionStep._select_parameters computes for its log
AdaptiveTargetTopk(step, n) ==
    LET t1 == Min2(step.current_topk, n)
        t2 == IF step.max_dimensions # 0 THEN Min2(t1, step.max_dimensions) ELSE t1
    IN Max2(t2, step.min_dimensions)

\* AdaptiveDimensionStep._select_parameters: [raised, idx, cache]
SelectAdaptive(step, names, hl) ==
    LET numeric == extract_numeric_hyperparameters(names)
        r == IF step.calc = "shap" THEN SHAPCalculate(step.cache, names, hl)
             ELSE [raised |-> CorrCalculate(names, hl).raised,
                   imp |-> CorrCalculate(names, hl).imp, cache |-> step.cache]
    IN IF r.raised THEN [raised |-> TRUE, idx |-> <<>>, cache |-> r.cache]
       ELSE IF Len(numeric) = 0
       THEN [raised |-> FALSE, idx |-> AllIndices(names), cache |-> r.cache]
       ELSE IF r.imp.none
       THEN \* importances is None: importances[...] raises unless the slice is skipped
            IF AdaptiveTargetTopk(step, Len(numeric)) > 0
            THEN [raised |-> TRUE, idx |-> <<>>, cache |-> r.cache]
            ELSE [raised |-> FALSE, idx |-> <<IndexOf(names, numeric[1])>>, cache |-> r.cache]
       ELSE [raised |-> FALSE,
             idx |-> [k \in 1..Len(numeric) |-> IndexOf(names, numeric[ArgSort(r.imp.v)[k]])],
             cache |-> r.cache]

\* <kind>._select_parameters(input_space, space_history, source_similarities)
select_parameters(step, names, hl) ==
    CASE step.kind = "adaptive" -> SelectAdaptive(step, names, hl)
      [] step.kind = "expert" -> SelectExpert(step, names)
      [] step.kind = "corr" -> SelectCorrelation(step, names, hl)
      [] OTHER -> SelectSHAP(step, names, hl)

\* DimensionSelectionStep._get_expert_param_indices
RECURSIVE ExpertIndicesFrom(_, _, _)
ExpertIndicesFrom(expert, names, acc) ==
    IF expert = <<>> THEN acc
    ELSE LET e == Head(expert)
         IN IF NameIn(names, e) /\ ~(\E k \in 1..Len(acc) : acc[k] = IndexOf(names, e))
            THEN ExpertIndicesFrom(Tail(expert), names, Append(acc, IndexOf(names, e)))
            ELSE ExpertIndicesFrom(Tail(expert), names, acc)

get_expert_param_indices(step, names) == ExpertIndicesFrom(step.expert_params, names, <<>>)

\* DimensionSelectionStep._get_target_topk: 0 stands for None
get_target_topk(step) ==
    IF step.kind = "shap" /\ step.topk > 0 THEN step.topk
    ELSE IF step.kind = "adaptive" /\ step.current_topk > 0 THEN step.current_topk
    ELSE 0

SeqToSet(s) == {s[k] : k \in 1..Len(s)}

\* sorted(indices) for a list of distinct indices
SortedIndices(idx) == [k \in 1..Len(idx) |-> idx[ArgSort(idx)[k]]]

\* the supplementing loop of _merge_expert_and_method_params (target 0 is None)
RECURSIVE MergeFrom(_, _, _)
MergeFrom(merged, method, target) ==
    IF method = <<>> THEN merged
    ELSE IF target # 0 /\ Len(merged) >= target THEN merged
    ELSE IF Head(method) \in SeqToSet(merged) THEN MergeFrom(merged, Tail(method), target)
    ELSE MergeFrom(Append(merged, Head(method)), Tail(method), target)

\* faulty variant of _merge_expert_and_method_params: the merged list, expert
\* parameters included, is cut at the target
merge_expert_and_method_params_Cut(step, expert_indices, method_sorted_indices) ==
    LET merged == MergeFrom(expert_indices, method_sorted_indices, get_target_topk(step))
    IN SortedIndices(IF get_target_topk(step) # 0
                     THEN Prefix(merged, get_target_topk(step)) ELSE merged)

\* DimensionSelectionStep._merge_expert_and_method_params
merge_expert_and_method_params(step, expert_indices, method_sorted_indices) ==
    SortedIndices(MergeFrom(expert_indices, method_sorted_indices, get_target_topk(step)))

\* DimensionSelectionStep._create_compressed_space
create_compressed_space(input_space, selected_indices) ==
    MkSpace([k \in 1..Len(selected_indices) |-> input_space.names[selected_indices[k]]],
            input_space.narrowed)

\* DimensionSelectionStep.compress (AdaptiveDimensionStep.compress delegates to it):
\* [raised, space, step]
DimensionCompress(step, input_space, hl) ==
    IF step.strategy = "none"
    THEN [raised |-> FALSE, space |-> input_space, step |-> step]
    ELSE
    LET names == input_space.names
        exclude_indices_set ==
            {IndexOf(names, e) : e \in {x \in SeqToSet(step.exclude_params) : NameIn(names, x)}}
        expert_indices ==
            SelectSeq(get_expert_param_indices(step, names),
                      LAMBDA k : k \notin exclude_indices_set)
        sel == select_parameters(step, names, hl)
        method_sorted_indices ==
            SelectSeq(sel.idx,
                      LAMBDA k : k \notin exclude_indices_set /\ k \notin SeqToSet(expert_indices))
        selected_indices ==
            merge_expert_and_method_params(step, expert_indices, method_sorted_indices)
        step1 == [step EXCEPT !.cache = sel.cache]
    IN IF sel.raised
       THEN [raised |-> TRUE, space |-> NoneSpace, step |-> step1]
       ELSE IF selected_indices = <<>>
       THEN [raised |-> FALSE, space |-> input_space, step |-> step1]
       ELSE [raised |-> FALSE,
             space |-> create_compressed_space(input_space, selected_indices),
             step |-> [step1 EXCEPT !.selected_param_names =
                          create_compressed_space(input_space, selected_indices).names]]

\* CorrelationDimensionStep.compress: the step's DimensionSelectionStep.compress
\* keeps what _select_parameters picked, in the order it picked it
CorrelationCompress(step, input_space, hl) ==
    IF step.strategy = "none"
    THEN [raised |-> FALSE, space |-> input_space, step |-> step]
    ELSE
    LET sel == select_parameters(step, input_space.names, hl)
    IN IF sel.raised
       THEN [raised |-> TRUE, space |-> NoneSpace, step |-> step]
       ELSE IF sel.idx = <<>>
       THEN [raised |-> FALSE, space |-> input_space, step |-> step]
       ELSE [raised |-> FALSE,
             space |-> create_compressed_space(input_space, sel.idx),
             step |-> [step EXCEPT !.selected_param_names =
                          create_compressed_space(input_space, sel.idx).names]]

\* faulty variant of AdaptiveDimensionStep.update: reports a re-run whenever the
\* strategy fires, also when the target size did not move
AdaptiveUpdate_AlwaysRerun(step, p) ==
    IF step.update_strategy.name = "none" THEN [updated |-> FALSE, step |-> step]
    ELSE IF ~should_update(step.update_strategy, p) THEN [updated |-> FALSE, step |-> step]
    ELSE [updated |-> TRUE,
          step |-> [step EXCEPT !.current_topk =
                       compute_new_topk(step.update_strategy, step.current_topk,
                                        step.rnum, step.rden, step.min_dimensions,
                                        step.max_dimensions, p)]]

\* AdaptiveDimensionStep.update(progress, history): [updated, step]
AdaptiveUpdate(step, p) ==
    IF step.update_strategy.name = "none" THEN [updated |-> FALSE, step |-> step]
    ELSE IF ~should_update(step.update_strategy, p) THEN [updated |-> FALSE, step |-> step]
    ELSE LET new_topk == compute_new_topk(step.update_strategy, step.current_topk,
                                          step.rnum, step.rden, step.min_dimensions,
                                          step.max_dimensions, p)
         IN IF new_topk # step.current_topk
            THEN [updated |-> TRUE, step |-> [step EXCEPT !.current_topk = new_topk]]
            ELSE [updated |-> FALSE, step |-> step]

(***************************************************************************)
(* Range and projection steps as the pipeline sees them.                   *)
(***************************************************************************)
BoundaryStep(enable_mixed_sampling) ==
    [kind |-> "boundary", method |-> "boundary",
     enable_mixed_sampling |-> enable_mixed_sampling, original_space |-> NoneSpace,
     input_space |-> NoneSpace, output_space |-> NoneSpace]

QuantStep(max_num_values, adaptive) ==
    [kind |-> "quant", method |-> "quantization", max_num_values |-> max_num_values,
     adaptive |-> adaptive, knobs_scalers |-> {},
     input_space |-> NoneSpace, output_space |-> NoneSpace]

\* the random-embedding steps (HesBO and REMBO differ in the embedding, not in the
\* bookkeeping): active_hps, whether _scaler is set, and the memo _low_to_high_cache
HesBOStep(low_dim) ==
    [kind |-> "hesbo", method |-> "hesbo", low_dim |-> low_dim, active_hps |-> <<>>,
     scaler |-> FALSE, low_to_high_cache |-> {},
     input_space |-> NoneSpace, output_space |-> NoneSpace]

REMBOStep(low_dim) == [HesBOStep(low_dim) EXCEPT !.method = "rembo"]

KPCAStep(n_components) ==
    [kind |-> "kpca", method |-> "kpca", n_components |-> n_components,
     space_history |-> NoList, fitted |-> FALSE,
     input_space |-> NoneSpace, output_space |-> NoneSpace]

IsDimension(step) == step.kind \in {"shap", "corr", "adaptive", "expert"}

\* RangeCompressionStep.compress with BoundaryRangeStep._compute_compressed_space:
\* the space keeps its parameters; it is narrowed when the history has samples.
BoundaryCompress(step, input_space, hl) ==
    IF step.method = "none"
    THEN [raised |-> FALSE, space |-> input_space, step |-> step]
    ELSE LET step1 == [step EXCEPT !.original_space = input_space]
             has_samples == ListTruthy(hl) /\ NonEmptyOf(hl.hs) # <<>>
                            /\ extract_numeric_hyperparameters(input_space.names) # <<>>
         IN [raised |-> FALSE,
             space |-> IF has_samples THEN MkSpace(input_space.names, TRUE) ELSE input_space,
             step |-> step1]

\* number of values of the caller's integer parameter p_i
CardOf(name) == 100 * name.i

\* QuantizationProjectionStep._needs_quantization on a parameter of the space
NeedsQuantization(step, name) == name.b = "p" /\ CardOf(name) > step.max_num_values

\* TransformativeProjectionStep.compress with
\* QuantizationProjectionStep._build_projected_space
QuantCompress(step, input_space) ==
    IF step.method = "none"
    THEN [raised |-> FALSE, space |-> input_space, step |-> step]
    ELSE LET names == input_space.names
             out == [k \in 1..Len(names) |->
                        IF NeedsQuantization(step, names[k])
                        THEN [b |-> "q", i |-> names[k].i] ELSE names[k]]
         IN [raised |-> FALSE, space |-> MkSpace(out, input_space.narrowed),
             step |-> [step EXCEPT !.knobs_scalers =
                          {names[k] : k \in {j \in 1..Len(names) :
                                               NeedsQuantization(step, names[j])}}]]

\* QuantizationProjectionStep.update(progress, history): [updated, step]
QuantUpdate(step, p) ==
    IF is_stagnant(p, 5)
    THEN LET m == Min2(100, step.max_num_values + 5)
         IN [updated |-> m # step.max_num_values, step |-> [step EXCEPT !.max_num_values = m]]
    ELSE IF has_improvement(p, 3)
    THEN LET m == Max2(5, step.max_num_values - 2)
         IN [updated |-> m # step.max_num_values, step |-> [step EXCEPT !.max_num_values = m]]
    ELSE [updated |-> FALSE, step |-> step]

\* TransformativeProjectionStep.compress with HesBOProjectionStep._build_projected_space
HesBOCompress(step, input_space) ==
    IF step.method = "none"
    THEN [raised |-> FALSE, space |-> input_space, step |-> step]
    ELSE [raised |-> FALSE,
          space |-> MkSpace([k \in 1..step.low_dim |-> [b |-> step.method, i |-> k]], FALSE),
          step |-> [step EXCEPT !.active_hps = input_space.names, !.scaler = TRUE]]

\* KPCAProjectionStep.compress (the kernel fit is an external routine that succeeds
\* whenever it is given samples)
KPCACompress(step, input_space, hl) ==
    IF step.method = "none"
    THEN [raised |-> FALSE, space |-> input_space, step |-> step]
    ELSE LET step1 == IF ~hl.none THEN [step EXCEPT !.space_history = hl] ELSE step
             numeric == extract_numeric_hyperparameters(input_space.names)
             trained == NonEmptyOf(step1.space_history.hs) # <<>>
             n == IF trained THEN Min2(step1.n_components, Len(numeric))
                  ELSE step1.n_components
             step2 == [step1 EXCEPT !.fitted = step1.fitted \/ trained, !.n_components = n]
         IN IF ~ListTruthy(step1.space_history)
            THEN [raised |-> FALSE, space |-> input_space, step |-> step1]
            ELSE IF Len(numeric) = 0
            THEN [raised |-> FALSE, space |-> input_space, step |-> step1]
            ELSE IF ~step2.fitted
            THEN [raised |-> FALSE, space |-> input_space, step |-> step2]
            ELSE [raised |-> FALSE,
                  space |-> MkSpace([k \in 1..n |-> [b |-> "kpca", i |-> k]], FALSE),
                  step |-> step2]

(***************************************************************************)
(* The CompressionStep contract (core/step.py): dispatch on the step kind. *)
(***************************************************************************)
\* step.compress(input_space, space_history, source_similarities)
StepCompress(step, input_space, hl) ==
    CASE step.kind = "corr" -> CorrelationCompress(step, input_space, hl)
      [] IsDimension(step) -> DimensionCompress(step, input_space, hl)
      [] step.kind = "boundary" -> BoundaryCompress(step, input_space, hl)
      [] step.kind = "quant" -> QuantCompress(step, input_space)
      [] step.kind = "hesbo" -> HesBOCompress(step, input_space)
      [] OTHER -> KPCACompress(step, input_space, hl)

needs_unproject(step) == step.kind \in {"quant", "hesbo"}

affects_sampling_space(step) == step.kind # "kpca"

supports_adaptive_update(step) ==
    CASE step.kind = "adaptive" -> step.update_strategy.name # "none"
      [] step.kind = "quant" -> step.adaptive
      [] OTHER -> FALSE

uses_progressive_compression(step) == step.kind = "adaptive"

\* hasattr(step, 'current_topk') and hasattr(step, 'initial_topk')
HasTopkAttrs(step) == step.kind = "adaptive"

\* step.update(progress, history): [updated, step]
StepUpdate(step, p) ==
    CASE step.kind = "adaptive" -> AdaptiveUpdate(step, p)
      [] step.kind = "quant" -> QuantUpdate(step, p)
      [] OTHER -> [updated |-> FALSE, step |-> step]

NoSampling == [kind |-> "none", space |-> NoneSpace, original_space |-> NoneSpace]

StandardSamplingStrategy(space) ==
    [kind |-> "standard", space |-> space, original_space |-> NoneSpace]

MixedRangeSamplingStrategy(compressed_space, orig) ==
    [kind |-> "mixed", space |-> compressed_space, original_space |-> orig]

\* step.get_sampling_strategy() (BoundaryRangeStep overrides the base's None)
get_sampling_strategy(step) ==
    IF step.kind = "boundary" /\ step.enable_mixed_sampling /\ ~step.original_space.none
    THEN MixedRangeSamplingStrategy(
             IF Truthy(step.output_space) THEN step.output_space ELSE step.original_space,
             step.original_space)
    ELSE NoSampling

(***************************************************************************)
(* CompressionPipeline (core/pipeline.py).  The operators work on a record *)
(* of the pipeline's fields; the actions below store it in the variables.  *)
(***************************************************************************)
Pipe == [steps |-> steps, original_space |-> original_space,
         space_after_steps |-> space_after_steps, sample_space |-> sample_space,
         surrogate_space |-> surrogate_space, unprojected_space |-> unprojected_space,
         sampling_strategy |-> sampling_strategy]

\* the loop of compress_space from step i on: [raised, steps, space_after_steps]
RECURSIVE RunSteps(_, _, _, _, _)
RunSteps(sts, i, current_space, sas, hl) ==
    IF i > Len(sts) THEN [raised |-> FALSE, steps |-> sts, space_after_steps |-> sas]
    ELSE With(StepCompress([sts[i] EXCEPT !.input_space = current_space], current_space, hl),
              LAMBDA r :
                 IF r.raised
                 THEN [raised |-> TRUE, steps |-> [sts EXCEPT ![i] = r.step],
                       space_after_steps |-> sas]
                 ELSE RunSteps([sts EXCEPT ![i] = [r.step EXCEPT !.output_space = r.space]],
                               i + 1, r.space, Append(sas, r.space), hl))

\* faulty variant of SampleSpaceIdx: the first step that affects sampling
SampleSpaceIdx_First(sts) ==
    LET S == {i \in 1..Len(sts) : affects_sampling_space(sts[i])}
    IN IF S = {} THEN 0 ELSE CHOOSE i \in S : \A j \in S : i <= j

\* index of the space the samples are drawn from: the last step that affects sampling
SampleSpaceIdx(sts) ==
    LET S == {i \in 1..Len(sts) : affects_sampling_space(sts[i])}
    IN IF S = {} THEN 0 ELSE CHOOSE i \in S : \A j \in S : j <= i

\* index of the first step that needs unprojection (0 if none)
FirstUnprojectIdx(sts) ==
    LET S == {i \in 1..Len(sts) : needs_unproject(sts[i])}
    IN IF S = {} THEN 0 ELSE CHOOSE i \in S : \A j \in S : i <= j

\* CompressionPipeline._determine_spaces (Python index k is sequence position k + 1)
determine_spaces(P) ==
    [P EXCEPT
        !.surrogate_space = P.space_after_steps[Len(P.space_after_steps)],
        !.sample_space = P.space_after_steps[SampleSpaceIdx(P.steps) + 1],
        !.unprojected_space =
            IF FirstUnprojectIdx(P.steps) = 0 THEN P.space_after_steps[1]
            ELSE P.space_after_steps[FirstUnprojectIdx(P.steps)]]

\* faulty variant of build_sampling_strategy: the scan runs from the first step on
build_sampling_strategy_Forward(P) ==
    LET S == {i \in 1..Len(P.steps) : get_sampling_strategy(P.steps[i]).kind # "none"}
    IN [P EXCEPT !.sampling_strategy =
           IF S # {}
           THEN get_sampling_strategy(P.steps[CHOOSE i \in S : \A j \in S : i <= j])
           ELSE StandardSamplingStrategy(P.sample_space)]

\* CompressionPipeline._build_sampling_strategy
build_sampling_strategy(P) ==
    LET S == {i \in 1..Len(P.steps) : get_sampling_strategy(P.steps[i]).kind # "none"}
    IN [P EXCEPT !.sampling_strategy =
           IF S # {}
           THEN get_sampling_strategy(P.steps[CHOOSE i \in S : \A j \in S : j <= i])
           ELSE StandardSamplingStrategy(P.sample_space)]

\* faulty variant of compress_space: the steps' input_space / output_space
\* assignments of the loop are lost
compress_space_StaleSteps(P, space, hl) ==
    LET P1 == IF P.original_space.none THEN [P EXCEPT !.original_space = space] ELSE P
    IN IF space.none
       THEN [raised |-> TRUE, pipe |-> P1]
       ELSE With(RunSteps(P1.steps, 1, space, <<space>>, hl),
                 LAMBDA run :
                    LET P2 == [P1 EXCEPT !.space_after_steps = run.space_after_steps]
                    IN IF run.raised
                       THEN [raised |-> TRUE, pipe |-> P2]
                       ELSE [raised |-> FALSE,
                             pipe |-> With(With(P2, determine_spaces),
                                           build_sampling_strategy)])

\* CompressionPipeline.compress_space(original_space, space_history, None):
\* [raised, pipe]
compress_space(P, space, hl) ==
    LET P1 == IF P.original_space.none THEN [P EXCEPT !.original_space = space] ELSE P
    IN IF space.none
       THEN [raised |-> TRUE, pipe |-> P1]          \* None.seed(...)
       ELSE With(RunSteps(P1.steps, 1, space, <<space>>, hl),
                 LAMBDA run :
                    LET P2 == [P1 EXCEPT !.steps = run.steps,
                                         !.space_after_steps = run.space_after_steps]
                    IN IF run.raised
                       THEN [raised |-> TRUE, pipe |-> P2]
                       ELSE [raised |-> FALSE,
                             pipe |-> With(With(P2, determine_spaces),
                                           build_sampling_strategy)])

\* the loop of update_compression over the steps: [steps, updated_steps]
RECURSIVE UpdateSteps(_, _, _, _)
UpdateSteps(sts, i, p, updated_steps) ==
    IF i > Len(sts) THEN [steps |-> sts, updated_steps |-> updated_steps]
    ELSE IF supports_adaptive_update(sts[i]) /\ StepUpdate(sts[i], p).updated
    THEN UpdateSteps([sts EXCEPT ![i] = StepUpdate(sts[i], p).step], i + 1, p,
                     Append(updated_steps, i))
    ELSE IF supports_adaptive_update(sts[i])
    THEN UpdateSteps([sts EXCEPT ![i] = StepUpdate(sts[i], p).step], i + 1, p, updated_steps)
    ELSE UpdateSteps(sts, i + 1, p, updated_steps)

\* the "needs_original_space" scan of update_compression
NeedsOriginalSpace(P, sts, updated_steps) ==
    \E k \in 1..Len(updated_steps) :
        /\ HasTopkAttrs(sts[updated_steps[k]])
        /\ Truthy(P.surrogate_space)
        /\ sts[updated_steps[k]].current_topk > NumParams(P.surrogate_space)

\* faulty variant of StartChoice: every restart goes back to the original space
StartChoice_AlwaysOriginal(P, sts, updated_steps) == "original"

\* the restart space update_compression chooses: "original" or "surrogate"
StartChoice(P, sts, updated_steps) ==
    IF NeedsOriginalSpace(P, sts, updated_steps) THEN "original"
    ELSE IF \A k \in 1..Len(updated_steps) :
                uses_progressive_compression(sts[updated_steps[k]])
    THEN "surrogate"
    ELSE "original"

\* CompressionPipeline.update_compression(history), after the progress update:
\* [ret, restarted, start, updated_steps, raised, pipe]
update_compression(P, p, history) ==
    With(UpdateSteps(P.steps, 1, p, <<>>),
         LAMBDA u :
            LET P1 == [P EXCEPT !.steps = u.steps]
                choice == StartChoice(P1, u.steps, u.updated_steps)
                start_space == IF choice = "original" THEN P1.original_space
                               ELSE P1.surrogate_space
                space_history == IF HistTruthy(history) THEN HistList(<<history>>) ELSE NoList
            IN IF u.updated_steps # <<>> /\ ~P1.original_space.none
               THEN With(compress_space(P1, start_space, space_history),
                         LAMBDA c :
                            [ret |-> ~c.raised, restarted |-> TRUE, start |-> choice,
                             start_space |-> start_space,
                             updated_steps |-> u.updated_steps, raised |-> c.raised,
                             pipe |-> c.pipe])
               ELSE [ret |-> FALSE, restarted |-> FALSE, start |-> "none",
                     start_space |-> NoneSpace,
                     updated_steps |-> u.updated_steps, raised |-> FALSE, pipe |-> P1])

(***************************************************************************)
(* The pipeline as a state machine.  A pipeline is built over one of the   *)
(* step chains below, either directly (original_space = None) or by the    *)
(* Compressor, which hands it the caller's space at construction.  The     *)
(* caller then interleaves compress_space and update_compression calls.    *)
(***************************************************************************)
Chains ==
    { <<DimStep("adaptive", "adaptive", 2, "shap", Periodic(2), <<>>, <<>>)>>,
      <<DimStep("adaptive", "adaptive", 2, "corr", Stagnation(2), <<>>, <<>>),
        BoundaryStep(TRUE)>>,
      <<DimStep("adaptive", "adaptive", 2, "corr", Improvement(1), <<>>, <<>>),
        QuantStep(90, FALSE)>>,
      <<DimStep("adaptive", "adaptive", 2, "corr", Periodic(6), <<>>, <<>>),
        QuantStep(90, TRUE)>>,
      <<DimStep("shap", "shap", 2, "shap", NoStrategy, <<>>, <<>>), BoundaryStep(FALSE)>>,
      <<KPCAStep(2)>>,
      <<BoundaryStep(TRUE), HesBOStep(2)>>,
      <<BoundaryStep(TRUE), BoundaryStep(TRUE)>>,
      <<QuantStep(90, TRUE), KPCAStep(2)>> }

NoCall ==
    [op |-> "none", raised |-> FALSE, restarted |-> FALSE, start |-> "none",
     start_space |-> NoneSpace, pre_surrogate |-> NoneSpace, updated_steps |-> <<>>]

\* CompressionPipeline.__init__
PipeInit ==
    /\ steps \in Chains
    /\ original_space \in {NoneSpace, CallerSpace}
    /\ space_after_steps = <<>>
    /\ sample_space = NoneSpace
    /\ surrogate_space = NoneSpace
    /\ unprojected_space = NoneSpace
    /\ sampling_strategy = NoSampling
    /\ progress = ProgressInit
    /\ last = NoCall
    /\ compressed = "never"

\* the components the pipeline specification does not drive
NoQuant == [phase |-> "idle"]

NoEmbed == [kind |-> "idle"]

NoBoundary == [phase |-> "idle"]

NoSelection == [phase |-> "idle"]

NoFactory == [op |-> "idle"]

NoMixed == [phase |-> "idle"]

NoAdaptive == [phase |-> "idle"]

NoQuantUpd == [phase |-> "idle"]

NoProgOp == [op |-> "idle"]

NoCompressor == [phase |-> "idle"]

NoRangeStep == [phase |-> "idle"]

NoEndToEnd == [phase |-> "idle"]

NoPointOp == [op |-> "idle"]

OthersIdle ==
    /\ quant = NoQuant
    /\ embed = NoEmbed
    /\ boundary = NoBoundary
    /\ selection = NoSelection
    /\ factory = NoFactory
    /\ mixed = NoMixed
    /\ adaptstep = NoAdaptive
    /\ quantupd = NoQuantUpd
    /\ progop = NoProgOp
    /\ compressor = NoCompressor
    /\ rangestep = NoRangeStep
    /\ e2e = NoEndToEnd
    /\ pointop = NoPointOp

StorePipe(P) ==
    /\ steps' = P.steps
    /\ original_space' = P.original_space
    /\ space_after_steps' = P.space_after_steps
    /\ sample_space' = P.sample_space
    /\ surrogate_space' = P.surrogate_space
    /\ unprojected_space' = P.unprojected_space
    /\ sampling_strategy' = P.sampling_strategy

\* the caller runs compress_space(space, space_history) on its own space
CompressSpaceCall(hl) ==
    \E c \in {compress_space(Pipe, CallerSpace, hl)} :
       /\ StorePipe(c.pipe)
       /\ compressed' = IF c.raised THEN "raised" ELSE "ok"
       /\ last' = [op |-> "compress_space", raised |-> c.raised, restarted |-> FALSE,
                   start |-> "caller", start_space |-> CallerSpace,
                   pre_surrogate |-> surrogate_space, updated_steps |-> <<>>]
       /\ UNCHANGED progress

CompressSpace(hl) == CompressSpaceCall(hl) /\ UNCHANGED notpipe

\* the caller runs update_compression(history)
UpdateCompressionCall(history) ==
    \E p \in {update_from_history(progress, history)} :
    \E u \in {update_compression(Pipe, p, history)} :
       /\ p.iteration <= MaxIter
       /\ \A i \in 1..Len(u.pipe.steps) :
              HasTopkAttrs(u.pipe.steps[i]) => u.pipe.steps[i].current_topk <= MaxTopk
       /\ progress' = p
       /\ StorePipe(u.pipe)
       /\ compressed' = IF ~u.restarted THEN compressed
                        ELSE IF u.raised THEN "raised" ELSE "ok"
       /\ last' = [op |-> "update_compression", raised |-> u.raised,
                   restarted |-> u.restarted, start |-> u.start,
                   start_space |-> u.start_space, pre_surrogate |-> surrogate_space,
                   updated_steps |-> u.updated_steps]

UpdateCompression(history) == UpdateCompressionCall(history) /\ UNCHANGED notpipe

Init == PipeInit /\ OthersIdle

Next ==
    \/ \E hl \in HistLists : CompressSpace(hl)
    \/ \E history \in Histories : UpdateCompression(history)

Spec == Init /\ [][Next]_vars

(***************************************************************************)
(* Properties of the pipeline.                                             *)
(***************************************************************************)
\* the updated steps of the last update_compression call, as they are now
LastUpdated == {steps[last.updated_steps[k]] : k \in 1..Len(last.updated_steps)}

\* C1: when update_compression restarts compress_space, it restarts from the
\* original space if some updated step's new current_topk exceeds the number of
\* parameters of the surrogate space it found; otherwise from that surrogate
\* space if every updated step uses progressive compression; otherwise from the
\* original space.
C1_RestartSpaceRule ==
    (last.op = "update_compression" /\ last.restarted) =>
        last.start_space =
            IF \E st \in LastUpdated :
                   /\ st.kind = "adaptive"
                   /\ ~last.pre_surrogate.none
                   /\ st.current_topk > NumParams(last.pre_surrogate)
            THEN original_space
            ELSE IF \A st \in LastUpdated : st.kind = "adaptive"
            THEN last.pre_surrogate
            ELSE original_space

\* C1's case: a progressive step lowered its target below the surrogate's size and
\* the pipeline restarted from the surrogate space
C1_Witness ==
    /\ last.op = "update_compression" /\ last.restarted /\ ~last.raised
    /\ ~last.pre_surrogate.none
    /\ \E st \in LastUpdated : st.current_topk < NumParams(last.pre_surrogate)
    /\ last.start_space = last.pre_surrogate
    /\ last.start_space # original_space

\* the other two branches of the rule are taken as well
C1_IncreaseTaken ==
    /\ last.op = "update_compression" /\ last.restarted /\ ~last.pre_surrogate.none
    /\ \E st \in LastUpdated : st.kind = "adaptive"
                                 /\ st.current_topk > NumParams(last.pre_surrogate)
    /\ last.start_space = original_space

C1_NonProgressiveTaken ==
    /\ last.op = "update_compression" /\ last.restarted /\ ~last.pre_surrogate.none
    /\ \E st \in LastUpdated : st.kind = "quant"
    /\ \E st \in LastUpdated : st.kind = "adaptive"
                                 /\ st.current_topk <= NumParams(last.pre_surrogate)
    /\ last.start_space = original_space /\ original_space # last.pre_surrogate

\* C2: after every compress_space run that returned (called by the caller or by
\* update_compression, from the original or from the surrogate space),
\* space_after_steps has one entry more than there are steps, entry i + 1 is step
\* i's output_space, and each step's output_space is the next step's input_space.
C2_ChainStructure ==
    compressed = "ok" =>
        /\ Len(space_after_steps) = Len(steps) + 1
        /\ \A i \in 1..Len(steps) : space_after_steps[i + 1] = steps[i].output_space
        /\ \A i \in 1..(Len(steps) - 1) : steps[i].output_space = steps[i + 1].input_space

\* C2's case: a two-step chain re-compressed from the surrogate space by
\* update_compression, its first step dropping a parameter
C2_Witness ==
    /\ compressed = "ok" /\ Len(steps) = 2
    /\ last.op = "update_compression" /\ last.restarted /\ last.start = "surrogate"
    /\ NumParams(steps[1].output_space) < NumParams(steps[1].input_space)

\* C3: after every compression the surrogate space is the last entry of
\* space_after_steps, the sample space is the output of the last step that
\* affects the sampling space (the chain's starting space if there is none), and
\* the unprojected space is the input of the first step that needs unprojection
\* (the chain's starting space if there is none).
C3_DerivedSpaces ==
    compressed = "ok" =>
        LET A == {i \in 1..Len(steps) : steps[i].kind # "kpca"}
            U == {i \in 1..Len(steps) : steps[i].kind \in {"quant", "hesbo"}}
        IN /\ surrogate_space = space_after_steps[Len(space_after_steps)]
           /\ IF A = {} THEN sample_space = space_after_steps[1]
              ELSE \E i \in A : (\A j \in A : j <= i) /\ sample_space = steps[i].output_space
           /\ IF U = {} THEN unprojected_space = space_after_steps[1]
              ELSE \E i \in U : (\A j \in U : i <= j)
                                /\ unprojected_space = steps[i].input_space

\* C3's case: a pipeline of one fitted Kernel-PCA step: the surrogate space is the
\* component space while samples are drawn from the chain's starting space
C3_Witness ==
    /\ compressed = "ok" /\ Len(steps) = 1 /\ steps[1].kind = "kpca"
    /\ surrogate_space # sample_space
    /\ sample_space = space_after_steps[1]
    /\ unprojected_space = space_after_steps[1]

\* a chain where a later step affects sampling and an earlier one does too
C3_TwoSamplingSteps ==
    /\ compressed = "ok" /\ Len(steps) = 2 /\ steps[2].kind = "hesbo"
    /\ sample_space = steps[2].output_space /\ sample_space # steps[1].output_space
    /\ unprojected_space = steps[1].output_space

\* C4: in every state, space_after_steps[0] (when there is one) has exactly the
\* parameters of the original space supplied by the caller.
C4_FirstSpaceIsOriginal ==
    space_after_steps # <<>> => space_after_steps[1].names = CallerSpace.names

(***************************************************************************)
(* QuantizationProjectionStep (steps/projection/quantization.py) over a    *)
(* space with one integer parameter "p" in [lower, upper].  The scaler is  *)
(* MinMaxScaler(feature_range = (lower, upper)) fitted on 1 and            *)
(* max_num_values; its arithmetic is carried out on exact fractions n / d  *)
(* with d > 0.                                                             *)
(***************************************************************************)
\* int(n / d): truncation toward zero
IntOf(n, d) == IF n >= 0 THEN n \div d ELSE 0 - ((0 - n) \div d)

\* faulty variant of RoundOf: rounds down
RoundOf_Floor(n, d) == n \div d

\* round(n / d): to the nearest integer, ties to the even one
RoundOf(n, d) ==
    LET f == n \div d
        r == n - f * d
    IN IF 2 * r < d THEN f
       ELSE IF 2 * r > d THEN f + 1
       ELSE IF f % 2 = 0 THEN f ELSE f + 1

\* QuantizationProjectionStep._needs_quantization
needs_quantization(lower, upper, max_num_values) == (upper - lower + 1) > max_num_values

\* scaler.transform(value): [1, max_num_values] -> [lower, upper], as a fraction
ScalerTransform(st, value) ==
    [n |-> st.lower * (st.max_num_values - 1) + (value - 1) * (st.upper - st.lower),
     d |-> st.max_num_values - 1]

\* scaler.inverse_transform(value): [lower, upper] -> [1, max_num_values], as a fraction
ScalerInverseTransform(st, value) ==
    [n |-> (st.upper - st.lower) + (value - st.lower) * (st.max_num_values - 1),
     d |-> st.upper - st.lower]

\* _build_projected_space: the step after compress; has_scaler says that "p" is in
\* _knobs_scalers, and the output space then holds "p|q" in [1, max_num_values]
build_projected_space(lower, upper, max_num_values) ==
    [lower |-> lower, upper |-> upper, max_num_values |-> max_num_values,
     has_scaler |-> needs_quantization(lower, upper, max_num_values)]

\* QuantizationProjectionStep.project_point({"p": value}): the one entry of the result
QuantProjectPoint(st, value) ==
    IF st.has_scaler
    THEN LET value_clamped == Max2(st.lower, Min2(st.upper, value))
             f == ScalerInverseTransform(st, value_clamped)
             quantized_value == RoundOf(f.n, f.d)
         IN [name |-> "p|q", value |-> Max2(1, Min2(st.max_num_values, quantized_value))]
    ELSE [name |-> "p", value |-> value]

\* QuantizationProjectionStep.unproject_point({name: value}): the one entry of the result
QuantUnprojectPoint(st, pt) ==
    IF pt.name # "p|q" THEN pt
    ELSE IF ~st.has_scaler THEN pt
    ELSE LET f == ScalerTransform(st, pt.value)
         IN [name |-> "p", value |-> Max2(st.lower, Min2(st.upper, IntOf(f.n, f.d)))]

NoPoint == [name |-> "", value |-> 0]

\* a step is built for an integer parameter and a max_num_values
QuantInit ==
    \E lower \in (0 - MaxBound)..MaxBound, upper \in (0 - MaxBound)..MaxBound,
       max_num_values \in 2..MaxNumValues :
        /\ lower < upper
        /\ quant = [phase |-> "built",
                    step |-> build_projected_space(lower, upper, max_num_values),
                    v |-> lower, projected |-> NoPoint, unprojected |-> NoPoint]

\* project_point on a value of the parameter's range
QuantProject(v) ==
    /\ quant.phase \in {"built", "unprojected"}
    /\ quant' = [quant EXCEPT !.phase = "projected", !.v = v,
                              !.projected = QuantProjectPoint(quant.step, v),
                              !.unprojected = NoPoint]
    /\ UNCHANGED notquant

\* unproject_point on the projected point
QuantUnproject ==
    /\ quant.phase = "projected"
    /\ quant' = [quant EXCEPT !.phase = "unprojected",
                              !.unprojected = QuantUnprojectPoint(quant.step, quant.projected)]
    /\ UNCHANGED notquant

QuantNext ==
    \/ \E v \in (0 - MaxBound)..MaxBound :
          v >= quant.step.lower /\ v <= quant.step.upper /\ QuantProject(v)
    \/ QuantUnproject

PipeIdle ==
    /\ steps = <<>>
    /\ original_space = NoneSpace
    /\ space_after_steps = <<>>
    /\ sample_space = NoneSpace
    /\ surrogate_space = NoneSpace
    /\ unprojected_space = NoneSpace
    /\ sampling_strategy = NoSampling
    /\ progress = ProgressInit
    /\ last = NoCall
    /\ compressed = "never"

InitQuant ==
    /\ QuantInit /\ PipeIdle /\ embed = NoEmbed /\ boundary = NoBoundary
    /\ selection = NoSelection /\ factory = NoFactory
    /\ mixed = NoMixed
    /\ adaptstep = NoAdaptive
    /\ quantupd = NoQuantUpd
    /\ progop = NoProgOp
    /\ compressor = NoCompressor
    /\ rangestep = NoRangeStep
    /\ e2e = NoEndToEnd
    /\ pointop = NoPointOp

SpecQuant == InitQuant /\ [][QuantNext]_vars

AbsDiff(a, b) == IF a >= b THEN a - b ELSE b - a

\* C5: for an integer parameter in [lower, upper] and an integer v of that range,
\* unproject_point(project_point({p: v}))[p] differs from v by at most one bucket,
\* (upper - lower) / (max_num_values - 1), when upper - lower + 1 > max_num_values;
\* otherwise the parameter is neither renamed nor rescaled and v comes back exactly.
C5_QuantRoundTrip ==
    quant.phase = "unprojected" =>
        /\ quant.unprojected.name = "p"
        /\ IF quant.step.upper - quant.step.lower + 1 > quant.step.max_num_values
           THEN AbsDiff(quant.unprojected.value, quant.v) * (quant.step.max_num_values - 1)
                    <= quant.step.upper - quant.step.lower
           ELSE /\ quant.projected = [name |-> "p", value |-> quant.v]
                /\ quant.unprojected.value = quant.v

\* C5's case: a lossy round trip (the value that comes back is not the one sent)
C5_Witness ==
    /\ quant.phase = "unprojected"
    /\ quant.step.upper - quant.step.lower + 1 > quant.step.max_num_values
    /\ quant.projected.name = "p|q"
    /\ quant.unprojected.name = "p"
    /\ quant.unprojected.value # quant.v

\* the exact case: the parameter has no more values than max_num_values
C5_ExactTaken ==
    /\ quant.phase = "unprojected"
    /\ quant.step.upper - quant.step.lower + 1 <= quant.step.max_num_values
    /\ quant.unprojected.value = quant.v

(***************************************************************************)
(* REMBOProjectionStep and HesBOProjectionStep (steps/projection/rembo.py, *)
(* hesbo.py) with low_dim = 1 over a space of an integer parameter in      *)
(* [0, 1] and a categorical parameter with two choices.  Both steps keep   *)
(* the same two memo caches.  Coordinates are exact fractions [n, d] in    *)
(* lowest terms.  The embedding is a column A of one coefficient per       *)
(* parameter: HesBO draws signs (sigma), REMBO draws reals, of which the   *)
(* model takes a few integers.                                             *)
(***************************************************************************)
RECURSIVE Gcd(_, _)
Gcd(a, b) == IF b = 0 THEN a ELSE Gcd(b, a % b)

Abs(a) == IF a >= 0 THEN a ELSE 0 - a

\* the fraction n / d (d > 0) in lowest terms
Frac(n, d) ==
    LET g == Gcd(Abs(n), d)
    IN IF n = 0 THEN [n |-> 0, d |-> 1] ELSE [n |-> n \div g, d |-> d \div g]

FracLeq(x, y) == x.n * y.d <= y.n * x.d

\* max(lo, min(hi, x)) / np.clip(x, lo, hi) on integers lo, hi
ClipFrac(x, lo, hi) ==
    IF FracLeq(x, Frac(lo, 1)) THEN Frac(lo, 1)
    ELSE IF FracLeq(Frac(hi, 1), x) THEN Frac(hi, 1) ELSE x

\* the points of the low-dimensional space the optimizer may propose
LowPoints == {Frac(k, LowGrid) : k \in (0 - LowGrid)..LowGrid}

\* the configurations of the input space: <<integer value, index of the choice>>
HighPoints == {<<v, c>> : v \in 0..1, c \in 0..1}

\* self._scaler.transform: (-1, 1) -> (0, 1)
EmbedScale(x) == Frac(x.n + x.d, 2 * x.d)

\* self._scaler.inverse_transform: (0, 1) -> (-1, 1)
EmbedUnscale(x) == Frac(2 * x.n - x.d, x.d)

\* hp._transform(value) of the integer parameter: [0, 1] onto 0..1 in equal bins
IntTransform(x) == Min2(1, (2 * x.n) \div x.d)

\* int(value * len(hp.choices)) clipped to the choices, for the two choices
CatTransform(x) == Max2(0, Min2(1, (2 * x.n) \div x.d))

\* the body of unproject_point after a cache miss: the configuration computed for
\* the low-dimensional point low
EmbedCompute(A, low) ==
    LET value(j) == ClipFrac(EmbedScale(Frac(A[j] * low.n, low.d)), 0, 1)
    IN <<IntTransform(value(1)), CatTransform(value(2))>>

\* _normalize_high_dim_config followed by self._scaler.inverse_transform
EmbedNormalize(high) == <<EmbedUnscale(Frac(high[1], 1)), EmbedUnscale(Frac(high[2], 1))>>

\* _approximate_project: HesBO averages high[j] / sigma[j]; REMBO applies the
\* pseudo-inverse of A; both clip to the box of the low-dimensional space
approximate_project(kind, A, high) ==
    LET x == EmbedNormalize(high)
        hesbo == Frac(A[1] * x[1].n * x[2].d + A[2] * x[2].n * x[1].d,
                      2 * x[1].d * x[2].d)
        rembo == Frac(A[1] * x[1].n * x[2].d + A[2] * x[2].n * x[1].d,
                      (A[1] * A[1] + A[2] * A[2]) * x[1].d * x[2].d)
    IN ClipFrac(IF kind = "hesbo" THEN hesbo ELSE rembo, 0 - 1, 1)

\* a cache as a set of <<key, value>> pairs with at most one pair per key
InCache(cache, key) == \E e \in cache : e[1] = key

CacheGet(cache, key) == (CHOOSE e \in cache : e[1] = key)[2]

\* faulty variant of CachePut: an existing entry is kept (setdefault)
CachePut_KeepFirst(cache, key, value) ==
    IF InCache(cache, key) THEN cache ELSE cache \cup {<<key, value>>}

\* cache[key] = value
CachePut(cache, key, value) == {e \in cache : e[1] # key} \cup {<<key, value>>}

\* _build_projected_space on a fresh step: empty caches, a drawn embedding
EmbedInit ==
    \E kind \in {"hesbo", "rembo"} :
    \E A \in [1..2 -> {0 - 2, 0 - 1, 1, 2}] :
        /\ kind = "hesbo" => \A j \in 1..2 : A[j] \in {0 - 1, 1}
        /\ embed = [kind |-> kind, A |-> A,
                    low_to_high_cache |-> {}, high_to_low_cache |-> {},
                    op |-> "none", arg |-> <<>>, ret |-> <<>>, hit |-> FALSE]

\* unproject_point(point)
EmbedUnproject(low) ==
    /\ UNCHANGED notembed
    /\ IF InCache(embed.low_to_high_cache, low)
       THEN embed' = [embed EXCEPT !.op = "unproject_point", !.arg = low, !.hit = TRUE,
                                   !.ret = CacheGet(embed.low_to_high_cache, low)]
       ELSE LET high == EmbedCompute(embed.A, low)
            IN embed' = [embed EXCEPT
                   !.op = "unproject_point", !.arg = low, !.hit = FALSE, !.ret = high,
                   !.low_to_high_cache = CachePut(embed.low_to_high_cache, low, high),
                   !.high_to_low_cache = CachePut(embed.high_to_low_cache, high, low)]

\* project_point(point)
EmbedProject(high) ==
    /\ UNCHANGED notembed
    /\ IF InCache(embed.high_to_low_cache, high)
       THEN embed' = [embed EXCEPT !.op = "project_point", !.arg = high, !.hit = TRUE,
                                   !.ret = CacheGet(embed.high_to_low_cache, high)]
       ELSE LET low == approximate_project(embed.kind, embed.A, high)
            IN embed' = [embed EXCEPT
                   !.op = "project_point", !.arg = high, !.hit = FALSE, !.ret = low,
                   !.high_to_low_cache = CachePut(embed.high_to_low_cache, high, low)]

EmbedNext ==
    \/ \E low \in LowPoints : EmbedUnproject(low)
    \/ \E high \in HighPoints : EmbedProject(high)

InitEmbed ==
    /\ EmbedInit /\ PipeIdle /\ quant = NoQuant /\ boundary = NoBoundary
    /\ selection = NoSelection /\ factory = NoFactory
    /\ mixed = NoMixed
    /\ adaptstep = NoAdaptive
    /\ quantupd = NoQuantUpd
    /\ progop = NoProgOp
    /\ compressor = NoCompressor
    /\ rangestep = NoRangeStep
    /\ e2e = NoEndToEnd
    /\ pointop = NoPointOp

SpecEmbed == InitEmbed /\ [][EmbedNext]_vars

\* the low-dimensional points unprojected so far that produced the configuration high
UnprojectedTo(high) == {e[1] : e \in {x \in embed.low_to_high_cache : x[2] = high}}

\* C6 (as amended): project_point on a configuration that unproject_point produced
\* is a cache hit and returns exactly the coordinates of a low-dimensional point
\* that was passed to unproject_point and produced that configuration (no
\* approximation); and unproject_point returns, for given coordinates, the one
\* configuration remembered for them, which is the one the embedding computes.
C6_ProjectReturnsAPreimage ==
    /\ (embed.op = "project_point" /\ UnprojectedTo(embed.arg) # {}) =>
           embed.hit /\ embed.ret \in UnprojectedTo(embed.arg)
    /\ embed.op = "unproject_point" =>
           /\ <<embed.arg, embed.ret>> \in embed.low_to_high_cache
           /\ \A e \in embed.low_to_high_cache :
                  e[1] = embed.arg => e[2] = embed.ret
    /\ \A e \in embed.low_to_high_cache : e[2] = EmbedCompute(embed.A, e[1])

\* C6's case: project_point hits the cache on a configuration that two different
\* low-dimensional points were unprojected to
C6_Witness ==
    /\ embed.op = "project_point" /\ embed.hit
    /\ Cardinality(UnprojectedTo(embed.arg)) >= 2
    /\ embed.ret \in UnprojectedTo(embed.arg)

\* C6 as stated: for every low-dimensional point L passed to unproject_point that
\* produced H, project_point(H) returns exactly L.
C6_EveryPointComesBack ==
    embed.op = "project_point" =>
        \A low \in UnprojectedTo(embed.arg) : embed.ret = low

(***************************************************************************)
(* BoundaryRangeStep (steps/range/boundary.py) and create_space_from_ranges *)
(* (utils/__init__.py) on one numeric hyperparameter.  Numbers are exact    *)
(* fractions; a hyperparameter is [type, lower, upper, q] with q = 0 for    *)
(* "no quantization step".                                                 *)
(***************************************************************************)
MaxUpper == 5
MaxQ == 2
MaxSamples == 3

FracAdd(x, y) == Frac(x.n * y.d + y.n * x.d, x.d * y.d)

FracSub(x, y) == Frac(x.n * y.d - y.n * x.d, x.d * y.d)

FracLt(x, y) == x.n * y.d < y.n * x.d

FracMax(x, y) == IF FracLeq(x, y) THEN y ELSE x

FracMin(x, y) == IF FracLeq(x, y) THEN x ELSE y

\* np.floor(x / q) * q and np.ceil(x / q) * q
FloorToMultiple(x, q) == ((x.n) \div (x.d * q)) * q

CeilToMultiple(x, q) == (0 - ((0 - x.n) \div (x.d * q))) * q

RECURSIVE SumOf(_)
SumOf(s) == IF s = <<>> THEN 0 ELSE Head(s) + SumOf(Tail(s))

RECURSIVE MinOf(_)
MinOf(s) == IF Len(s) = 1 THEN s[1] ELSE Min2(Head(s), MinOf(Tail(s)))

RECURSIVE MaxOf(_)
MaxOf(s) == IF Len(s) = 1 THEN s[1] ELSE Max2(Head(s), MaxOf(Tail(s)))

\* a uniform integer or float hyperparameter as the input space holds it
Hyperparameters ==
    {[type |-> t, lower |-> lo, upper |-> up, q |-> q] :
        t \in {"int", "real"}, lo \in (0 - 1)..1, up \in 0..MaxUpper, q \in 0..MaxQ}

ValidHyperparameter(hp) ==
    /\ hp.lower < hp.upper
    /\ hp.q > 0 => (hp.upper - hp.lower) % hp.q = 0

\* the values a configuration of the hyperparameter can take (on the q grid)
LegalValues(hp) ==
    {v \in hp.lower..hp.upper : hp.q > 0 => (v - hp.lower) % hp.q = 0}

\* the values of the top samples of the history, in ascending order
SampleSeqs(hp) ==
    {s \in UNION {[1..n -> LegalValues(hp)] : n \in 1..MaxSamples} :
        \A i \in 1..(Len(s) - 1) : s[i] <= s[i + 1]}

\* BoundaryRangeStep._clamp_range_bounds
clamp_range_bounds(min_val, max_val, param_values, hp) ==
    LET lo == IF FracLt(max_val, min_val) THEN Frac(MinOf(param_values), 1) ELSE min_val
        hi == IF FracLt(max_val, min_val) THEN Frac(MaxOf(param_values), 1) ELSE max_val
    IN [min_val |-> FracMax(lo, Frac(hp.lower, 1)),
        max_val |-> FracMin(hi, Frac(hp.upper, 1))]

\* BoundaryRangeStep._compute_simple_ranges for one parameter: the samples are
\* normalised to (value - lower) / range_size, cut at mean -/+ sigma * std, and
\* mapped back.  With a = value - lower, S = sum(a), n = len(a):
\*   mean - sigma * std <= min   iff   (S - n * min)^2 <= sigma^2 * (n * sum(a^2) - S^2)
\* and the same for max; when the cut is inside (sigma = 0 here) it is the mean.
compute_simple_ranges(hp, sigma, values) ==
    LET n == Len(values)
        range_size == hp.upper - hp.lower
        a == [i \in 1..n |-> values[i] - hp.lower]
        S == SumOf(a)
        SS == SumOf([i \in 1..n |-> a[i] * a[i]])
        spread == sigma * sigma * (n * SS - S * S)
        mean_norm == Frac(S, n * range_size)
        min_val_norm == IF (S - n * MinOf(a)) * (S - n * MinOf(a)) <= spread
                        THEN Frac(MinOf(a), range_size) ELSE mean_norm
        max_val_norm == IF (n * MaxOf(a) - S) * (n * MaxOf(a) - S) <= spread
                        THEN Frac(MaxOf(a), range_size) ELSE mean_norm
        min_val == FracAdd(Frac(hp.lower, 1), Frac(min_val_norm.n * range_size, min_val_norm.d))
        max_val == FracAdd(Frac(hp.lower, 1), Frac(max_val_norm.n * range_size, max_val_norm.d))
    IN clamp_range_bounds(min_val, max_val, values, hp)

\* the UniformIntegerHyperparameter / UniformFloatHyperparameter constructor
\* accepts the bounds (it raises on lower >= upper and on a range that is not a
\* multiple of q)
ConstructorAccepts(lower, upper, q) ==
    /\ FracLt(lower, upper)
    /\ q > 0 => LET w == FracSub(upper, lower) IN w.d = 1 /\ w.n % q = 0


\* create_space_from_ranges for one parameter and its compressed range: the
\* bounds of the hyperparameter the returned space holds under the name
create_space_from_ranges(hp, range) ==
    LET isint == hp.type = "int"
        original_lower == Frac(hp.lower, 1)
        original_upper == Frac(hp.upper, 1)
        delta == IF isint THEN Frac(1, 1) ELSE Frac(hp.upper - hp.lower, 100)
        invalid == FracLeq(range.max_val, range.min_val)
        \* lines 66-79: repair of an invalid range
        max1 == IF invalid /\ FracLt(range.max_val, original_upper)
                THEN FracMin(FracAdd(IF isint THEN range.min_val ELSE range.max_val, delta),
                             original_upper)
                ELSE IF invalid /\ ~FracLt(original_lower, range.min_val)
                THEN original_upper ELSE range.max_val
        min1 == IF invalid /\ ~FracLt(range.max_val, original_upper)
                THEN IF FracLt(original_lower, range.min_val)
                     THEN FracMax(FracSub(range.max_val, delta), original_lower)
                     ELSE original_lower
                ELSE range.min_val
        \* lines 82-91: quantization
        qmin == FloorToMultiple(min1, hp.q)
        qmax == CeilToMultiple(max1, hp.q)
        min2 == IF hp.q > 0 THEN Frac(qmin, 1) ELSE min1
        max2 == IF hp.q > 0
                THEN IF qmax - qmin < hp.q THEN Frac(qmin + hp.q, 1)
                     ELSE Frac(qmin + RoundOf(qmax - qmin, hp.q) * hp.q, 1)
                ELSE max1
        \* lines 93-110: the new hyperparameter
        new_lower == IF isint THEN Frac(IntOf(min2.n, min2.d), 1) ELSE min2
        new_upper == IF isint THEN Frac(IntOf(max2.n, max2.d), 1) ELSE max2
    IN IF ConstructorAccepts(new_lower, new_upper, hp.q)
       THEN [lower |-> new_lower, upper |-> new_upper, replaced |-> TRUE]
       ELSE [lower |-> original_lower, upper |-> original_upper, replaced |-> FALSE]

\* BoundaryRangeStep._compute_compressed_space on a space history whose top
\* samples are values (an empty sequence: no history, or no valid observation)
compute_compressed_space(hp, sigma, values) ==
    IF values = <<>>
    THEN [lower |-> Frac(hp.lower, 1), upper |-> Frac(hp.upper, 1), replaced |-> FALSE]
    ELSE create_space_from_ranges(hp, compute_simple_ranges(hp, sigma, values))

\* a step is built (sigma) and given an input space with one numeric parameter
BoundaryInit ==
    \E hp \in Hyperparameters, sigma \in {0, 2} :
        /\ ValidHyperparameter(hp)
        /\ boundary = [phase |-> "built", hp |-> hp, sigma |-> sigma, values |-> <<>>,
                       out |-> [lower |-> Frac(hp.lower, 1), upper |-> Frac(hp.upper, 1),
                                replaced |-> FALSE]]

\* compress(input_space, space_history)
BoundaryRangeCompress(values) ==
    /\ boundary' = [boundary EXCEPT
                       !.phase = "compressed", !.values = values,
                       !.out = compute_compressed_space(boundary.hp, boundary.sigma, values)]
    /\ UNCHANGED notboundary

BoundaryNext ==
    \/ BoundaryRangeCompress(<<>>)
    \/ \E values \in SampleSeqs(boundary.hp) : BoundaryRangeCompress(values)

InitBoundary ==
    /\ BoundaryInit /\ PipeIdle /\ quant = NoQuant /\ embed = NoEmbed
    /\ selection = NoSelection /\ factory = NoFactory
    /\ mixed = NoMixed
    /\ adaptstep = NoAdaptive
    /\ quantupd = NoQuantUpd
    /\ progop = NoProgOp
    /\ compressor = NoCompressor
    /\ rangestep = NoRangeStep
    /\ e2e = NoEndToEnd
    /\ pointop = NoPointOp

SpecBoundary == InitBoundary /\ [][BoundaryNext]_vars

\* C7: boundary range compression never widens a range: the output
\* hyperparameter's [lower, upper] lies inside the input's and is no wider,
\* with or without a quantization step q.
C7_NeverWidens ==
    boundary.phase = "compressed" =>
        /\ FracLeq(Frac(boundary.hp.lower, 1), boundary.out.lower)
        /\ FracLeq(boundary.out.upper, Frac(boundary.hp.upper, 1))
        /\ FracLeq(FracSub(boundary.out.upper, boundary.out.lower),
                   Frac(boundary.hp.upper - boundary.hp.lower, 1))

(***************************************************************************)
(* A dimension-selection step on its own: compress(input_space,            *)
(* space_history) on spaces with numeric and categorical parameters, with  *)
(* expert and exclude lists.  The step keeps its calculator's cache        *)
(* between calls.                                                          *)
(***************************************************************************)
\* a categorical parameter
CName == [b |-> "c", i |-> 0]

\* the input spaces: all numeric, with a categorical parameter in second place, or
\* with a categorical parameter only
SelectionSpaces ==
    {CallerSpace,
     MkSpace(<<PName(1), CName>> \o [i \in 1..(NParams - 1) |-> PName(i + 1)], FALSE),
     MkSpace(<<CName>>, FALSE)}

\* the names an expert or exclude list may carry: present ones and an absent one
ListedNames == {PName(1), PName(NParams), CName, PName(NParams + 1)}

ExpertLists == {<<>>} \cup {<<a>> : a \in ListedNames}
                  \cup {<<a, b>> : a \in ListedNames, b \in ListedNames}

ExcludeLists == {<<>>} \cup {<<a>> : a \in ListedNames}

SelectionSteps ==
    {DimStep("shap", st, IF st = "none" THEN 0 ELSE k, "shap", NoStrategy, ex, xc) :
        st \in {"shap", "none"}, k \in 0..(NParams + 1), ex \in ExpertLists, xc \in ExcludeLists}
    \cup {DimStep("adaptive", "adaptive", k, c, NoStrategy, ex, xc) :
        k \in 1..(NParams + 1), c \in {"shap", "corr"}, ex \in ExpertLists, xc \in ExcludeLists}
    \cup {DimStep("expert", "expert", 0, "shap", NoStrategy, ex, xc) :
        ex \in ExpertLists, xc \in ExcludeLists}
    \cup {DimStep("corr", "spearman", k, "corr", NoStrategy, <<>>, <<>>) :
        k \in 0..(NParams + 1)}

SelectionInit ==
    \E step \in SelectionSteps, space \in SelectionSpaces :
        selection = [phase |-> "built", step |-> step, input_space |-> space,
                     hl |-> NoList, raised |-> FALSE, output |-> NoneSpace]

\* step.compress(input_space, space_history)
SelectionCompress(hl) ==
    \E r \in {StepCompress(selection.step, selection.input_space, hl)} :
        /\ selection' = [selection EXCEPT !.phase = "compressed", !.hl = hl,
                                          !.step = r.step, !.raised = r.raised,
                                          !.output = r.space]
        /\ UNCHANGED notselection

SelectionNext == \E hl \in HistLists : SelectionCompress(hl)

InitSelection ==
    /\ SelectionInit /\ PipeIdle /\ quant = NoQuant /\ embed = NoEmbed
    /\ boundary = NoBoundary /\ factory = NoFactory
    /\ mixed = NoMixed
    /\ adaptstep = NoAdaptive
    /\ quantupd = NoQuantUpd
    /\ progop = NoProgOp
    /\ compressor = NoCompressor
    /\ rangestep = NoRangeStep
    /\ e2e = NoEndToEnd
    /\ pointop = NoPointOp

SpecSelection == InitSelection /\ [][SelectionNext]_vars

\* the expert-listed parameters that exist in the input space and are not excluded
KeptExperts ==
    {e \in SeqToSet(selection.step.expert_params) :
        NameIn(selection.input_space.names, e)
        /\ e \notin SeqToSet(selection.step.exclude_params)}

\* C8: every expert-listed parameter that exists in the input space and is not
\* on the exclude list is in the space compress returns, whatever the importance
\* ranking and the target count (also when the target is below the number of
\* expert parameters).
C8_ExpertParamsKept ==
    (selection.phase = "compressed" /\ ~selection.raised) =>
        \A e \in KeptExperts : NameIn(selection.output.names, e)

\* C8's case: a ranking from a real history, a target count below the number of
\* expert parameters, and an output that dropped other parameters
C8_Witness ==
    /\ selection.phase = "compressed" /\ ~selection.raised
    /\ ListTruthy(selection.hl) /\ NonEmptyOf(selection.hl.hs) # <<>>
    /\ selection.step.kind \in {"shap", "adaptive"}
    /\ get_target_topk(selection.step) > 0
    /\ Cardinality(KeptExperts) > get_target_topk(selection.step)
    /\ Len(selection.output.names) < Len(selection.input_space.names)
    /\ \A e \in KeptExperts : NameIn(selection.output.names, e)

\* C9: without a history (None or an empty list) a SHAP, correlation or adaptive
\* step with no expert and no exclude list is a no-op for every topk: compress
\* does not raise and returns exactly the input space's parameters.
C9_NoHistoryIsNoOp ==
    (/\ selection.phase = "compressed"
     /\ ~ListTruthy(selection.hl)
     /\ selection.step.kind \in {"shap", "corr", "adaptive"}
     /\ selection.step.expert_params = <<>>
     /\ selection.step.exclude_params = <<>>) =>
        /\ ~selection.raised
        /\ selection.output.names = selection.input_space.names

(***************************************************************************)
(* The step factory (api/step_factory.py).  Keyword arguments are a record  *)
(* [period, stagnation_threshold, improvement_threshold,                   *)
(* composite_strategies] with 0 for an argument that was not passed.       *)
(***************************************************************************)
\* the keys of _STEP_REGISTRY
StepStrings ==
    {"d_shap", "d_corr", "d_expert", "d_adaptive", "d_none",
     "r_boundary", "r_shap", "r_kde", "r_expert", "r_none",
     "p_quant", "p_rembo", "p_hesbo", "p_kpca", "p_none"}

KnownImportance ==
    {"shap", "shap_importance", "correlation", "corr",
     "correlation_spearman", "correlation_pearson"}

KnownUpdate == {"none", "periodic", "stagnation", "improvement", "hybrid", "composite"}

\* str.lower() on the identifiers the model passes
Lower(str) ==
    CASE str = "SHAP" -> "shap"
      [] str = "PERIODIC" -> "periodic"
      [] OTHER -> str

\* kwargs.get(key, default)
KwGet(value, default) == IF value = 0 THEN default ELSE value

\* return None
NoStep == [kind |-> "none"]

\* _create_importance_calculator_from_string: [calc, method, warned]
create_importance_calculator_from_string(importance_str) ==
    LET id == Lower(importance_str)
    IN CASE id \in {"shap", "shap_importance"} ->
                [calc |-> "shap", method |-> "", warned |-> FALSE]
         [] id \in {"correlation", "corr", "correlation_spearman"} ->
                [calc |-> "corr", method |-> "spearman", warned |-> FALSE]
         [] id = "correlation_pearson" ->
                [calc |-> "corr", method |-> "pearson", warned |-> FALSE]
         [] OTHER -> [calc |-> "shap", method |-> "", warned |-> TRUE]

\* the strategies of a composite: each name converted, None results dropped
RECURSIVE CompositeParts(_, _, _)

\* _create_update_strategy_from_string: [none, strategy, warned]
RECURSIVE create_update_strategy_from_string(_, _)
create_update_strategy_from_string(update_str, kw) ==
    LET id == Lower(update_str)
        made(u, w) == [none |-> FALSE, strategy |-> u, warned |-> w]
    IN CASE id = "none" -> [none |-> TRUE, strategy |-> NoStrategy, warned |-> FALSE]
         [] id = "periodic" -> made(Periodic(KwGet(kw.period, 5)), FALSE)
         [] id = "stagnation" -> made(Stagnation(KwGet(kw.stagnation_threshold, 5)), FALSE)
         [] id = "improvement" -> made(Improvement(KwGet(kw.improvement_threshold, 3)), FALSE)
         [] id = "hybrid" ->
                made(Hybrid(KwGet(kw.period, 10), kw.stagnation_threshold,
                            kw.improvement_threshold), FALSE)
         [] id = "composite" ->
                LET parts == CompositeParts(kw.composite_strategies, kw, <<>>)
                IN IF kw.composite_strategies = <<>> \/ parts = <<>>
                   THEN made(Periodic(5), TRUE)
                   ELSE made([name |-> "composite", strategies |-> parts], FALSE)
         [] OTHER -> made(Periodic(5), TRUE)

CompositeParts(names, kw, acc) ==
    IF names = <<>> THEN acc
    ELSE LET r == create_update_strategy_from_string(Head(names), kw)
         IN CompositeParts(Tail(names), kw,
                           IF r.none THEN acc ELSE Append(acc, r.strategy))

\* step_class(**default_params) for the registry's defaults
RegistryStep(step_str) ==
    CASE step_str = "d_shap" -> DimStep("shap", "shap", 20, "shap", NoStrategy, <<>>, <<>>)
      [] step_str = "d_corr" -> DimStep("corr", "spearman", 20, "corr", NoStrategy, <<>>, <<>>)
      [] step_str = "d_expert" -> DimStep("expert", "expert", 0, "shap", NoStrategy, <<>>, <<>>)
      [] step_str = "r_boundary" -> BoundaryStep(TRUE)
      [] step_str = "p_quant" -> QuantStep(10, FALSE)
      [] step_str = "p_hesbo" -> HesBOStep(10)
      [] step_str = "p_kpca" -> KPCAStep(10)
      [] OTHER -> [kind |-> step_str]

\* AdaptiveDimensionStep(importance_calculator, update_strategy, ...) with the
\* registry's defaults: a None strategy is replaced by PeriodicUpdateStrategy(5)
AdaptiveStep(calc, upd) ==
    [DimStep("adaptive", "adaptive", 30, calc.calc,
             IF upd.none THEN Periodic(5) ELSE upd.strategy, <<>>, <<>>)
        EXCEPT !.rnum = 1, !.rden = 5, !.min_dimensions = 5]

\* faulty variant of create_step_from_string: an invalid identifier gives None
create_step_from_string_NoneOnInvalid(step_str, importance_calculator, update_strategy, kw) ==
    IF step_str \notin StepStrings \/ step_str \in {"d_none", "r_none", "p_none"}
    THEN [raised |-> FALSE, step |-> NoStep, warned |-> FALSE]
    ELSE IF step_str = "d_adaptive"
    THEN LET calc == create_importance_calculator_from_string(importance_calculator)
             upd == create_update_strategy_from_string(update_strategy, kw)
         IN [raised |-> FALSE, step |-> AdaptiveStep(calc, upd),
             warned |-> calc.warned \/ upd.warned]
    ELSE [raised |-> FALSE, step |-> RegistryStep(step_str), warned |-> FALSE]

\* create_step_from_string(step_str, **kwargs): [raised, step, warned]
create_step_from_string(step_str, importance_calculator, update_strategy, kw) ==
    IF step_str \notin StepStrings
    THEN [raised |-> TRUE, step |-> NoStep, warned |-> FALSE]        \* ValueError
    ELSE IF step_str \in {"d_none", "r_none", "p_none"}
    THEN [raised |-> FALSE, step |-> NoStep, warned |-> FALSE]
    ELSE IF step_str = "d_adaptive"
    THEN LET calc == create_importance_calculator_from_string(importance_calculator)
             upd == create_update_strategy_from_string(update_strategy, kw)
         IN [raised |-> FALSE, step |-> AdaptiveStep(calc, upd),
             warned |-> calc.warned \/ upd.warned]
    ELSE [raised |-> FALSE, step |-> RegistryStep(step_str), warned |-> FALSE]


\* the identifiers and keyword arguments a caller passes
ImportanceStrings == KnownImportance \cup {"SHAP", "shap_values"}

UpdateStrings == KnownUpdate \cup {"PERIODIC", "adaptive"}

KwArgs ==
    {[period |-> p, stagnation_threshold |-> st, improvement_threshold |-> im,
      composite_strategies |-> cs] :
        p \in {0, 2}, st \in {0, 3}, im \in {0},
        cs \in {<<>>, <<"none">>, <<"stagnation", "adaptive">>}}

NoKwArgs ==
    [period |-> 0, stagnation_threshold |-> 0, improvement_threshold |-> 0,
     composite_strategies |-> <<>>]

FactoryInit ==
    factory = [op |-> "none", step_str |-> "", importance_calculator |-> "",
               update_strategy |-> "", kw |-> NoKwArgs,
               raised |-> FALSE, step |-> NoStep, warned |-> FALSE]

\* create_step_from_string(step_str, importance_calculator=..., update_strategy=..., ...)
CreateStep(step_str, importance_calculator, update_strategy, kw) ==
    LET r == create_step_from_string(step_str, importance_calculator, update_strategy, kw)
    IN /\ factory' = [op |-> "create_step_from_string", step_str |-> step_str,
                      importance_calculator |-> importance_calculator,
                      update_strategy |-> update_strategy, kw |-> kw,
                      raised |-> r.raised, step |-> r.step, warned |-> r.warned]
       /\ UNCHANGED notfactory

\* the registry's defaults: importance_calculator 'shap', update_strategy 'periodic'
FactoryNext ==
    \/ \E step_str \in (StepStrings \cup {"d_pca", "shap"}) \ {"d_adaptive"} :
          CreateStep(step_str, "shap", "periodic", NoKwArgs)
    \/ \E importance_calculator \in ImportanceStrings, update_strategy \in UpdateStrings,
          kw \in KwArgs :
          CreateStep("d_adaptive", importance_calculator, update_strategy, kw)

InitFactory ==
    /\ FactoryInit /\ PipeIdle /\ quant = NoQuant /\ embed = NoEmbed
    /\ boundary = NoBoundary /\ selection = NoSelection
    /\ mixed = NoMixed
    /\ adaptstep = NoAdaptive
    /\ quantupd = NoQuantUpd
    /\ progop = NoProgOp
    /\ compressor = NoCompressor
    /\ rangestep = NoRangeStep
    /\ e2e = NoEndToEnd
    /\ pointop = NoPointOp

SpecFactory == InitFactory /\ [][FactoryNext]_vars

UnknownStepId == factory.step_str \notin StepStrings

UnknownImportanceId == Lower(factory.importance_calculator) \notin KnownImportance

UnknownUpdateId == Lower(factory.update_strategy) \notin KnownUpdate

C10_UnknownStepRaised ==
    factory.op = "create_step_from_string" /\ UnknownStepId /\ factory.raised

MaxPerf == 1        \* objective values of evaluated results: 0..MaxPerf
MaxBatch == 2       \* results in one update_probabilities call: 0..MaxBatch
MaxResults == 3     \* cap on the results a strategy has recorded in total

\* initial_prob values a caller configures (the default is 90)
InitialProbs == {0, 30, 50, 90, 95, 100}

ResultSet == [from : {"compressed", "original", "none"}, perf : 0..MaxPerf]

Batches == UNION {[1..n -> ResultSet] : n \in 0..MaxBatch}

\* the perf values of the results sampled from one source, in order
PerfOf(results, source) ==
    LET from_source(r) == r.from = source
        kept == SelectSeq(results, from_source)
    IN [k \in 1..Len(kept) |-> kept[k].perf]

\* original_mean < compressed_mean, both lists non-empty:
\* sum(o) / len(o) < sum(c) / len(c)
OriginalMeanLower(compressed_perf, original_perf) ==
    SumOf(original_perf) * Len(compressed_perf)
        < SumOf(compressed_perf) * Len(original_perf)

\* the value update_probabilities leaves in self.compressed_prob
NewCompressedProb(compressed_prob, compressed_perf, original_perf) ==
    IF Len(compressed_perf) > 0 /\ Len(original_perf) > 0
    THEN IF OriginalMeanLower(compressed_perf, original_perf)
         THEN Max2(50, compressed_prob - 10)
         ELSE Min2(95, compressed_prob + 5)
    ELSE compressed_prob

\* MixedRangeSamplingStrategy(compressed_space, original_space, initial_prob)
MixedInit ==
    \E initial_prob \in InitialProbs :
        mixed = [phase |-> "built", initial_prob |-> initial_prob,
                 compressed_prob |-> initial_prob,
                 compressed_results |-> <<>>, original_results |-> <<>>,
                 prev_prob |-> initial_prob,
                 compressed_perf |-> <<>>, original_perf |-> <<>>]

\* update_probabilities(results)
UpdateProbabilities(results) ==
    LET compressed_perf == PerfOf(results, "compressed")
        original_perf == PerfOf(results, "original")
    IN /\ Len(mixed.compressed_results) + Len(mixed.original_results)
              + Len(compressed_perf) + Len(original_perf) <= MaxResults
       /\ mixed' = [mixed EXCEPT
              !.phase = "updated",
              !.compressed_results = mixed.compressed_results \o compressed_perf,
              !.original_results = mixed.original_results \o original_perf,
              !.compressed_prob =
                  NewCompressedProb(mixed.compressed_prob, compressed_perf, original_perf),
              !.prev_prob = mixed.compressed_prob,
              !.compressed_perf = compressed_perf,
              !.original_perf = original_perf]
       /\ UNCHANGED notmixed

MixedNext == \E results \in Batches : UpdateProbabilities(results)

InitMixed ==
    /\ MixedInit /\ PipeIdle /\ quant = NoQuant /\ embed = NoEmbed
    /\ boundary = NoBoundary /\ selection = NoSelection /\ factory = NoFactory
    /\ adaptstep = NoAdaptive
    /\ quantupd = NoQuantUpd
    /\ progop = NoProgOp
    /\ compressor = NoCompressor
    /\ rangestep = NoRangeStep
    /\ e2e = NoEndToEnd
    /\ pointop = NoPointOp

SpecMixed == InitMixed /\ [][MixedNext]_vars

\* the last call saw results from both sources
BothSources == Len(mixed.compressed_perf) > 0 /\ Len(mixed.original_perf) > 0

\* C11: after every update_probabilities call, whatever the configured initial
\* probability, the probability of sampling from the compressed space lies
\* within [0.5, 0.95].
C11_ProbWithinBounds ==
    mixed.phase = "updated" => mixed.compressed_prob >= 50 /\ mixed.compressed_prob <= 95

\* the bounds hold for a strategy configured within them
C11_WithinWhenConfiguredWithin ==
    mixed.phase = "updated" /\ mixed.initial_prob >= 50 /\ mixed.initial_prob <= 95
        => mixed.compressed_prob >= 50 /\ mixed.compressed_prob <= 95

\* C12: after a batch, the probability increases (up to the upper bound) only
\* when the compressed samples have the strictly lower mean objective, and
\* decreases (down to the lower bound) in every other case, equal means included.
C12_AdjustmentDirection ==
    mixed.phase = "updated" /\ BothSources =>
        IF OriginalMeanLower(mixed.original_perf, mixed.compressed_perf)
        THEN mixed.compressed_prob = Min2(95, mixed.prev_prob + 5)
        ELSE mixed.compressed_prob = Max2(50, mixed.prev_prob - 10)

\* what the strategy does: down when the original samples have the strictly
\* lower mean, up otherwise (equal means included), nothing without both sources
C12_DirectionOfTheCode ==
    mixed.phase = "updated" =>
        IF ~BothSources THEN mixed.compressed_prob = mixed.prev_prob
        ELSE IF OriginalMeanLower(mixed.compressed_perf, mixed.original_perf)
        THEN mixed.compressed_prob = Max2(50, mixed.prev_prob - 10)
        ELSE mixed.compressed_prob = Min2(95, mixed.prev_prob + 5)

\* a batch with equal means from a strategy at 0.9
C12_EqualMeansReached ==
    /\ mixed.phase = "updated" /\ BothSources /\ mixed.prev_prob = 90
    /\ ~OriginalMeanLower(mixed.compressed_perf, mixed.original_perf)
    /\ ~OriginalMeanLower(mixed.original_perf, mixed.compressed_perf)

(***************************************************************************)
(* AdaptiveDimensionStep.update on its own (steps/dimension/adaptive.py).   *)
(* The pipeline shows the step its progress after update_from_history; the  *)
(* record keeps what the call saw and returned.                             *)
(***************************************************************************)
AdaptiveStrategies ==
    {Periodic(2), Periodic(3), Stagnation(2), Improvement(1), Hybrid(3, 2, 0), Hybrid(4, 0, 1)}

\* AdaptiveDimensionStep(update_strategy, initial_topk, reduction_ratio = 1/2,
\* min_dimensions, max_dimensions); the constructor replaces a None strategy by
\* PeriodicUpdateStrategy, so every step has one
AdaptiveSteps ==
    {[DimStep("adaptive", "adaptive", initial_topk, "shap", u, <<>>, <<>>)
         EXCEPT !.min_dimensions = min_dimensions, !.max_dimensions = max_dimensions] :
        u \in AdaptiveStrategies, initial_topk \in 1..NParams,
        min_dimensions \in 1..2, max_dimensions \in {0, MaxTopk - 1}}

AdaptiveInit ==
    \E step \in AdaptiveSteps :
        adaptstep = [phase |-> "built", step |-> step, progress |-> ProgressInit,
                    should |-> FALSE, ret |-> FALSE, old_topk |-> step.current_topk]

\* progress.update_from_history(history); step.update(progress, history)
AdaptiveStepUpdate(history) ==
    \E p \in {update_from_history(adaptstep.progress, history)} :
    \E r \in {AdaptiveUpdate(adaptstep.step, p)} :
        /\ p.iteration <= MaxIter
        /\ r.step.current_topk <= MaxTopk
        /\ adaptstep' = [phase |-> "updated", step |-> r.step, progress |-> p,
                        should |-> /\ adaptstep.step.update_strategy.name # "none"
                                   /\ should_update(adaptstep.step.update_strategy, p),
                        ret |-> r.updated, old_topk |-> adaptstep.step.current_topk]
        /\ UNCHANGED notadaptstep

AdaptiveNext == \E history \in Histories : AdaptiveStepUpdate(history)

InitAdaptive ==
    /\ AdaptiveInit /\ PipeIdle /\ quant = NoQuant /\ embed = NoEmbed
    /\ boundary = NoBoundary /\ selection = NoSelection /\ factory = NoFactory
    /\ mixed = NoMixed
    /\ quantupd = NoQuantUpd
    /\ progop = NoProgOp
    /\ compressor = NoCompressor
    /\ rangestep = NoRangeStep
    /\ e2e = NoEndToEnd
    /\ pointop = NoPointOp

SpecAdaptive == InitAdaptive /\ [][AdaptiveNext]_vars

\* the target size the strategy's policy gives for the step as it was before the call
PolicyTopk ==
    compute_new_topk(adaptstep.step.update_strategy, adaptstep.old_topk,
                     adaptstep.step.rnum, adaptstep.step.rden, adaptstep.step.min_dimensions,
                     adaptstep.step.max_dimensions, adaptstep.progress)

\* C13 as stated: whenever should_update is true, update() sets current_topk to the
\* policy's value and returns true; whenever it is false, update() returns false
\* and current_topk is unchanged.
C13_UpdateFollowsShouldUpdate ==
    adaptstep.phase = "updated" =>
        IF adaptstep.should
        THEN adaptstep.ret /\ adaptstep.step.current_topk = PolicyTopk
        ELSE ~adaptstep.ret /\ adaptstep.step.current_topk = adaptstep.old_topk

\* C13: whenever should_update is true, current_topk becomes the policy's value and
\* update() returns true exactly when that value differs from the old one; whenever
\* should_update is false, update() returns false and current_topk is unchanged.
C13_RerunIffTopkMoved ==
    adaptstep.phase = "updated" =>
        IF adaptstep.should
        THEN /\ adaptstep.step.current_topk = PolicyTopk
             /\ adaptstep.ret <=> (adaptstep.step.current_topk # adaptstep.old_topk)
        ELSE ~adaptstep.ret /\ adaptstep.step.current_topk = adaptstep.old_topk

\* the strategy fired and moved the target size
C13_Witness ==
    /\ adaptstep.phase = "updated" /\ adaptstep.should /\ adaptstep.ret
    /\ adaptstep.step.current_topk # adaptstep.old_topk

\* the strategy fired but the policy left the target size where it was
C13_FiredWithoutMove ==
    adaptstep.phase = "updated" /\ adaptstep.should /\ ~adaptstep.ret

(***************************************************************************)
(* QuantizationProjectionStep.update on its own                             *)
(* (steps/projection/quantization.py).  The optimizer reports one incumbent *)
(* value per iteration; the step is shown the progress after each report.   *)
(***************************************************************************)
MaxBest == 4    \* incumbent values reported to the progress: 1..MaxBest

\* max_num_values a caller configures (the default is 10)
InitialMaxValues == {3, 5, 10, 97, 100, 103}

QuantUpdInit ==
    \E max_num_values \in InitialMaxValues :
        quantupd = [phase |-> "built", step |-> QuantStep(max_num_values, TRUE),
                    initial |-> max_num_values, progress |-> ProgressInit,
                    old_max |-> max_num_values,
                    stagnant |-> FALSE, improving |-> FALSE, ret |-> FALSE]

\* progress.update(current_best_value); step.update(progress, history)
QuantStepUpdate(current_best_value) ==
    \E p \in {ProgressUpdate(quantupd.progress, current_best_value, TRUE)} :
    \E r \in {QuantUpdate(quantupd.step, p)} :
        /\ p.iteration <= MaxIter
        /\ quantupd' = [quantupd EXCEPT
               !.phase = "updated", !.step = r.step, !.progress = p,
               !.old_max = quantupd.step.max_num_values,
               !.stagnant = is_stagnant(p, 5),
               !.improving = has_improvement(p, 3),
               !.ret = r.updated]
        /\ UNCHANGED notquantupd

QuantUpdNext == \E current_best_value \in 1..MaxBest : QuantStepUpdate(current_best_value)

InitQuantUpd ==
    /\ QuantUpdInit /\ PipeIdle /\ quant = NoQuant /\ embed = NoEmbed
    /\ boundary = NoBoundary /\ selection = NoSelection /\ factory = NoFactory
    /\ mixed = NoMixed
    /\ adaptstep = NoAdaptive
    /\ progop = NoProgOp
    /\ compressor = NoCompressor
    /\ rangestep = NoRangeStep
    /\ e2e = NoEndToEnd
    /\ pointop = NoPointOp

SpecQuantUpd == InitQuantUpd /\ [][QuantUpdNext]_vars

C14_HoldsWhenConfiguredWithin ==
    quantupd.phase = "updated" /\ quantupd.initial >= 5 /\ quantupd.initial <= 100 =>
        /\ quantupd.stagnant => quantupd.step.max_num_values >= quantupd.old_max
        /\ quantupd.improving => quantupd.step.max_num_values <= quantupd.old_max
        /\ quantupd.step.max_num_values >= 5
        /\ quantupd.step.max_num_values <= 100

\* an update under improvement that raised max_values
C14_RaisedUnderImprovement ==
    /\ quantupd.phase = "updated" /\ quantupd.improving
    /\ quantupd.step.max_num_values > quantupd.old_max

\* an update under stagnation that lowered max_values
C14_LoweredUnderStagnation ==
    /\ quantupd.phase = "updated" /\ quantupd.stagnant
    /\ quantupd.step.max_num_values < quantupd.old_max

(***************************************************************************)
(* The progress of a pipeline under every call that can touch it: the       *)
(* pipeline's compress_space and update_compression, and the public         *)
(* operations of OptimizerProgress on pipeline.progress (core/progress.py). *)
(* progop records the call, its history argument and the counters before.   *)
(***************************************************************************)
MaxProgIter == 3    \* cap on the iteration counter in this specification

\* a history with observations none of which succeeded: get_incumbent_value() is None
NoIncumbentHistory == [none |-> FALSE, n |-> 1, inc |-> NoValue]

ProgressHistories == Histories \cup {NoIncumbentHistory}

\* the space_history arguments of compress_space
ProgressHistLists == {NoList, HistList(<<MkHistory(1)>>)}

ProgressChains ==
    { <<DimStep("adaptive", "adaptive", 2, "shap", Periodic(2), <<>>, <<>>)>>,
      <<QuantStep(90, TRUE), KPCAStep(2)>> }

Observed(op, history) ==
    [op |-> op, counted |-> HistTruthy(history) /\ history.inc # NoValue,
     iteration |-> progress.iteration,
     best_value_history_len |-> progress.best_value_history_len]

pipeButProgress == <<steps, original_space, space_after_steps, sample_space,
                     surrogate_space, unprojected_space, sampling_strategy, last,
                     compressed>>

\* pipeline.compress_space(space, space_history)
ObservedCompressSpace(hl) ==
    /\ CompressSpaceCall(hl)
    /\ progop' = Observed("compress_space", NoHistory)
    /\ UNCHANGED notpipeprogop

\* pipeline.update_compression(history)
ObservedUpdateCompression(history) ==
    /\ update_from_history(progress, history).iteration <= MaxProgIter
    /\ UpdateCompressionCall(history)
    /\ progop' = Observed("update_compression", history)
    /\ UNCHANGED notpipeprogop

\* pipeline.progress.update(current_best_value, minimize)
ProgressUpdateOp(current_best_value, minimize) ==
    /\ progress.iteration < MaxProgIter
    /\ progress' = ProgressUpdate(progress, current_best_value, minimize)
    /\ progop' = Observed("update", NoHistory)
    /\ UNCHANGED <<pipeButProgress, notpipeprogop>>

\* pipeline.progress.update_from_history(history)
ProgressUpdateFromHistoryOp(history) ==
    /\ update_from_history(progress, history).iteration <= MaxProgIter
    /\ progress' = update_from_history(progress, history)
    /\ progop' = Observed("update_from_history", history)
    /\ UNCHANGED <<pipeButProgress, notpipeprogop>>

\* pipeline.progress.reset()
ProgressResetOp ==
    /\ progress' = ProgressReset(progress)
    /\ progop' = Observed("reset", NoHistory)
    /\ UNCHANGED <<pipeButProgress, notpipeprogop>>

InitProgress ==
    /\ PipeInit /\ steps \in ProgressChains /\ original_space = NoneSpace
    /\ quant = NoQuant /\ embed = NoEmbed
    /\ boundary = NoBoundary /\ selection = NoSelection /\ factory = NoFactory
    /\ mixed = NoMixed
    /\ adaptstep = NoAdaptive
    /\ quantupd = NoQuantUpd
    /\ progop = NoProgOp
    /\ compressor = NoCompressor
    /\ rangestep = NoRangeStep
    /\ e2e = NoEndToEnd
    /\ pointop = NoPointOp

NextProgress ==
    \/ \E hl \in ProgressHistLists : ObservedCompressSpace(hl)
    \/ \E history \in ProgressHistories : ObservedUpdateCompression(history)
    \/ \E current_best_value \in 1..MaxVal, minimize \in BOOLEAN :
          ProgressUpdateOp(current_best_value, minimize)
    \/ \E history \in ProgressHistories : ProgressUpdateFromHistoryOp(history)
    \/ ProgressResetOp

SpecProgress == InitProgress /\ [][NextProgress]_vars

\* the counter and the best-value history did not go back in the last call
NotRolledBack ==
    /\ progress.iteration >= progop.iteration
    /\ progress.best_value_history_len >= progop.best_value_history_len

\* the last call was update_compression with a non-empty history that has an incumbent
CountedUpdate ==
    /\ progop.op = "update_compression"
    /\ progop.counted

\* C15 as stated: across update, update_from_history, reset and the pipeline's
\* update_compression / compress_space, the iteration counter never decreases and
\* the best-value history never loses entries; the counter increases by exactly
\* one on each update_compression whose history is non-empty with an incumbent.
C15_NeverRolledBack ==
    progop.op # "idle" =>
        /\ NotRolledBack
        /\ CountedUpdate => progress.iteration = progop.iteration + 1

\* C15: across update, update_from_history and the pipeline's update_compression /
\* compress_space the iteration counter never decreases and the best-value history
\* never loses entries; reset() alone puts the counter back to 0 and empties the
\* history; the counter increases by exactly one on each update_compression whose
\* history is non-empty with an incumbent.
C15_RolledBackOnlyByReset ==
    progop.op # "idle" =>
        /\ progop.op # "reset" => NotRolledBack
        /\ progop.op = "reset" =>
              progress.iteration = 0 /\ progress.best_value_history_len = 0
        /\ CountedUpdate => progress.iteration = progop.iteration + 1

\* an update_compression with an incumbent, on a progress that had already counted
C15_Witness ==
    /\ CountedUpdate /\ progop.iteration >= 1
    /\ progress.iteration = progop.iteration + 1
    /\ progress.best_value_history_len = progop.best_value_history_len + 1

\* reset() on a progress that had counted
C15_ResetRolledBack ==
    progop.op = "reset" /\ progop.iteration >= 1 /\ progress.iteration = 0

(***************************************************************************)
(* The keep-all edge cases and the exclude list of a dimension-selection   *)
(* step, on the step of SpecSelection.                                     *)
(***************************************************************************)
\* the target count of the selection step: topk, or current_topk for an adaptive
\* step; 0 when the step has none
SelectionTarget ==
    IF selection.step.kind = "corr" THEN selection.step.topk
    ELSE get_target_topk(selection.step)

ZeroNumeric == extract_numeric_hyperparameters(selection.input_space.names) = <<>>

TargetCoversInput ==
    SelectionTarget > 0 /\ SelectionTarget >= NumParams(selection.input_space)

OutputKeepsEveryParameter ==
    \A k \in 1..NumParams(selection.input_space) :
        NameIn(selection.output.names, selection.input_space.names[k])

\* C19: keep-all edge cases: when the input space has no numeric parameter, or the
\* target count is at least the number of parameters of the input space, the output
\* space of a step without an exclude list contains every parameter of the input
\* space, numeric and categorical.
C19_KeepAllEdgeCases ==
    (/\ selection.phase = "compressed" /\ ~selection.raised
     /\ selection.step.exclude_params = <<>>
     /\ ZeroNumeric \/ TargetCoversInput)
        => OutputKeepsEveryParameter

\* the first half alone: without numeric parameters every parameter is kept
C19_ZeroNumericKeepsAll ==
    (/\ selection.phase = "compressed" /\ ~selection.raised
     /\ selection.step.exclude_params = <<>>
     /\ ZeroNumeric)
        => OutputKeepsEveryParameter

\* with a target that covers the input space every numeric parameter is kept
C19_TargetCoversKeepsNumeric ==
    (/\ selection.phase = "compressed" /\ ~selection.raised
     /\ selection.step.exclude_params = <<>>
     /\ TargetCoversInput)
        => \A k \in 1..NumParams(selection.input_space) :
              IsNumeric(selection.input_space.names[k])
                 => NameIn(selection.output.names, selection.input_space.names[k])

\* a step with a target that covers the input space ranked the numeric parameters
\* from a history and dropped the categorical one
C19_CategoricalDropped ==
    /\ selection.phase = "compressed" /\ ~selection.raised
    /\ selection.step.exclude_params = <<>> /\ selection.step.expert_params = <<>>
    /\ TargetCoversInput
    /\ NameIn(selection.input_space.names, CName)
    /\ ~NameIn(selection.output.names, CName)

\* C20: for a step with a strategy other than 'none', no parameter named on the
\* exclude list is in the output space, also when the exclude list covers every
\* candidate and when the parameter is expert-listed.
C20_ExcludedNeverInOutput ==
    (selection.phase = "compressed" /\ ~selection.raised
     /\ selection.step.strategy # "none")
        => \A k \in 1..Len(selection.step.exclude_params) :
              ~NameIn(selection.output.names, selection.step.exclude_params[k])

\* the same whenever the step selected something: the output is a space compress built
C20_HoldsWhenSomethingSelected ==
    (selection.phase = "compressed" /\ ~selection.raised
     /\ selection.step.strategy # "none"
     /\ selection.step.selected_param_names # <<>>)
        => \A k \in 1..Len(selection.step.exclude_params) :
              ~NameIn(selection.output.names, selection.step.exclude_params[k])

\* nothing was left to select and compress returned the input space, excluded
\* parameter included
C20_ExcludedReturned ==
    /\ selection.phase = "compressed" /\ ~selection.raised
    /\ selection.step.strategy # "none"
    /\ selection.step.selected_param_names = <<>>
    /\ selection.output = selection.input_space
    /\ \E k \in 1..Len(selection.step.exclude_params) :
          NameIn(selection.output.names, selection.step.exclude_params[k])

(***************************************************************************)
(* The Compressor facade (dimensio/core/compressor.py) over the pipeline.  *)
(* The constructor hands the pipeline the caller's space; compress_space   *)
(* and update_compression run the pipeline's operations, copy its spaces   *)
(* and, with save_compression_info, append one event to                    *)
(* compression_history.  An event records its kind, its iteration (0 is    *)
(* None), the parameter names of the three spaces and, per step, the       *)
(* sizes of the step's input and output space.  The timestamp and the      *)
(* files written after the append are outside the model.                   *)
(***************************************************************************)
MaxEvents == 3    \* cap on len(compression_history)

\* the source_similarities argument: None, {} or {0: w}
NoSimilarities == [none |-> TRUE, keys |-> {}]

Similarities(keys) == [none |-> FALSE, keys |-> keys]

SimilarityArgs == {NoSimilarities, Similarities({0})}

\* the space_history arguments of compress_space, with a list of two tasks
CompressorHistLists ==
    {NoList, HistList(<<MkHistory(1)>>), HistList(<<MkHistory(1), MkHistory(2)>>)}

\* the history arguments of update_compression
CompressorHistories == {NoHistory} \cup {MkHistory(v) : v \in 1..MaxVal}

CompressorChains ==
    { <<DimStep("adaptive", "adaptive", 2, "shap", Periodic(2), <<>>, <<>>)>>,
      <<DimStep("shap", "shap", 2, "shap", NoStrategy, <<>>, <<>>), BoundaryStep(FALSE)>>,
      <<DimStep("shap", "none", 0, "shap", NoStrategy, <<>>, <<>>), BoundaryStep(FALSE)>>,
      <<QuantStep(90, TRUE), KPCAStep(2)>> }

CompressorInit(save_compression_info) ==
    [phase |-> "ready", save_compression_info |-> save_compression_info,
     compression_history |-> <<>>, source_similarities |-> NoSimilarities,
     surrogate_space |-> NoneSpace, sample_space |-> NoneSpace,
     op |-> "none", raised |-> FALSE, ret |-> FALSE]

\* DimensionSelectionStep.get_step_info: len(self.selected_indices) is taken whenever
\* input_space is set, and selected_indices is None until a compress selected something
StepInfoRaises(step) ==
    /\ step.kind \in {"shap", "adaptive", "expert"}
    /\ Truthy(step.input_space)
    /\ step.selected_param_names = <<>>

get_step_info(step) ==
    [input_space_params |-> IF Truthy(step.input_space) THEN NumParams(step.input_space) ELSE 0,
     output_space_params |-> IF Truthy(step.output_space) THEN NumParams(step.output_space) ELSE 0]

\* the performance_metrics scan: the first step with a _calculator (a SHAPDimensionStep)
\* whose cache holds importances_per_task and task_names; 0 when there is none
CachedTaskNames(sts) ==
    LET S == {i \in 1..Len(sts) : /\ sts[i].kind = "shap"
                                  /\ sts[i].cache.importances_per_task
                                  /\ sts[i].cache.task_names > 0}
    IN IF S = {} THEN 0 ELSE sts[CHOOSE i \in S : \A j \in S : i <= j].cache.task_names

\* performance_metrics['task_names'][int(i)] for the keys of _source_similarities:
\* KeyError without cached task names, IndexError for a key past them
SimilarityLookupRaises(C, sts) ==
    /\ ~C.source_similarities.none
    /\ \E i \in C.source_similarities.keys : i >= CachedTaskNames(sts)

MkEvent(C, event, iteration, sts) ==
    [event |-> event, iteration |-> iteration,
     original |-> CallerSpace.names,
     sample |-> IF Truthy(C.sample_space) THEN C.sample_space.names ELSE <<>>,
     surrogate |-> IF Truthy(C.surrogate_space) THEN C.surrogate_space.names ELSE <<>>,
     steps |-> [i \in 1..Len(sts) |-> get_step_info(sts[i])]]

\* Compressor._save_compression_info(event, iteration): [raised, compressor]
save_compression_info(C, event, iteration, sts) ==
    IF (\E i \in 1..Len(sts) : StepInfoRaises(sts[i])) \/ SimilarityLookupRaises(C, sts)
    THEN [raised |-> TRUE, compressor |-> C]
    ELSE [raised |-> FALSE,
          compressor |-> [C EXCEPT !.compression_history =
                                      Append(@, MkEvent(C, event, iteration, sts))]]

Called(C, op, raised, ret) ==
    [C EXCEPT !.phase = "called", !.op = op, !.raised = raised, !.ret = ret]

\* Compressor.compress_space after pipeline.compress_space: raised says whether the
\* pipeline raised, sts, surrogate and sample are the pipeline's steps and spaces
AfterCompressSpace(C, raised, sts, surrogate, sample, source_similarities) ==
    IF raised THEN Called(C, "compress_space", TRUE, FALSE)
    ELSE LET C1 == [C EXCEPT !.surrogate_space = surrogate, !.sample_space = sample,
                             !.source_similarities = source_similarities]
             s == IF C.save_compression_info
                  THEN save_compression_info(C1, "initial_compression", 0, sts)
                  ELSE [raised |-> FALSE, compressor |-> C1]
         IN Called(s.compressor, "compress_space", s.raised, FALSE)

\* Compressor.update_compression after pipeline.update_compression returned updated
\* (or raised); history.num_objectives is 1 for a History and raises for None
AfterUpdateCompression(C, raised, updated, history, sts, surrogate, sample) ==
    IF raised THEN Called(C, "update_compression", TRUE, FALSE)
    ELSE LET C1 == IF updated
                   THEN [C EXCEPT !.surrogate_space = surrogate, !.sample_space = sample]
                   ELSE C
             s == IF updated /\ C.save_compression_info
                  THEN IF history.none THEN [raised |-> TRUE, compressor |-> C1]
                       ELSE save_compression_info(C1, "adaptive_update", 1, sts)
                  ELSE [raised |-> FALSE, compressor |-> C1]
         IN IF s.raised THEN Called(s.compressor, "update_compression", TRUE, FALSE)
            ELSE IF s.compressor.surrogate_space.none       \* len(None...) of current_dims
            THEN Called(s.compressor, "update_compression", TRUE, FALSE)
            ELSE Called(s.compressor, "update_compression", FALSE, updated)

notpipecompressor == <<quant, embed, boundary, selection, factory, mixed, adaptstep,
                       quantupd, progop, rangestep, e2e, pointop>>

\* compressor.compress_space(space_history, source_similarities)
CompressorCompressSpace(hl, source_similarities) ==
    /\ Len(compressor.compression_history) < MaxEvents
    /\ CompressSpaceCall(hl)
    /\ compressor' = AfterCompressSpace(compressor, last'.raised, steps', surrogate_space',
                                        sample_space', source_similarities)
    /\ UNCHANGED notpipecompressor

\* compressor.update_compression(history)
CompressorUpdateCompression(history) ==
    /\ Len(compressor.compression_history) < MaxEvents
    /\ update_from_history(progress, history).iteration <= MaxProgIter
    /\ UpdateCompressionCall(history)
    /\ compressor' = AfterUpdateCompression(compressor, last'.raised,
                                            last'.restarted /\ ~last'.raised, history,
                                            steps', surrogate_space', sample_space')
    /\ UNCHANGED notpipecompressor

InitCompressor ==
    /\ steps \in CompressorChains
    /\ original_space = CallerSpace
    /\ space_after_steps = <<>>
    /\ sample_space = NoneSpace
    /\ surrogate_space = NoneSpace
    /\ unprojected_space = NoneSpace
    /\ sampling_strategy = NoSampling
    /\ progress = ProgressInit
    /\ last = NoCall
    /\ compressed = "never"
    /\ quant = NoQuant /\ embed = NoEmbed
    /\ boundary = NoBoundary /\ selection = NoSelection /\ factory = NoFactory
    /\ mixed = NoMixed
    /\ adaptstep = NoAdaptive
    /\ quantupd = NoQuantUpd
    /\ progop = NoProgOp
    /\ compressor \in {CompressorInit(save) : save \in BOOLEAN}
    /\ rangestep = NoRangeStep
    /\ e2e = NoEndToEnd
    /\ pointop = NoPointOp

NextCompressor ==
    \/ \E hl \in CompressorHistLists, source_similarities \in SimilarityArgs :
          CompressorCompressSpace(hl, source_similarities)
    \/ \E history \in CompressorHistories : CompressorUpdateCompression(history)

SpecCompressor == InitCompressor /\ [][NextCompressor]_vars

\* the old log is a prefix of the new one
LogKept == SubSeq(compressor'.compression_history, 1, Len(compressor.compression_history))
               = compressor.compression_history

\* the new log is the old one and one event of the given kind
OneEventAppended(event) ==
    /\ Len(compressor'.compression_history) = Len(compressor.compression_history) + 1
    /\ LogKept
    /\ compressor'.compression_history[Len(compressor'.compression_history)].event = event

\* C16: with saving enabled no call removes or modifies an event; each compress_space
\* appends exactly one initial_compression event, each update_compression that returns
\* True appends exactly one adaptive_update event, and an update_compression that
\* returns False appends nothing.
C16_LogOnlyGrows ==
    [][compressor.save_compression_info =>
          /\ LogKept
          /\ compressor'.op = "compress_space" => OneEventAppended("initial_compression")
          /\ (compressor'.op = "update_compression" /\ ~compressor'.raised /\ compressor'.ret)
                => OneEventAppended("adaptive_update")
          /\ (compressor'.op = "update_compression" /\ ~compressor'.raised /\ ~compressor'.ret)
                => compressor'.compression_history = compressor.compression_history]_vars

\* the same for the calls that return: a call that raises leaves the log as it was
C16_HoldsForCallsThatReturn ==
    [][compressor.save_compression_info =>
          /\ LogKept
          /\ (compressor'.op = "compress_space" /\ ~compressor'.raised)
                => OneEventAppended("initial_compression")
          /\ (compressor'.op = "update_compression" /\ ~compressor'.raised /\ compressor'.ret)
                => OneEventAppended("adaptive_update")
          /\ (~compressor'.ret \/ compressor'.raised)
                /\ ~(compressor'.op = "compress_space" /\ ~compressor'.raised)
                => compressor'.compression_history = compressor.compression_history]_vars

\* a saving compressor whose log holds an initial_compression and then an adaptive_update
C16_LogGrew ==
    /\ compressor.phase = "called" /\ compressor.save_compression_info
    /\ compressor.op = "update_compression" /\ compressor.ret
    /\ Len(compressor.compression_history) >= 2
    /\ compressor.compression_history[1].event = "initial_compression"
    /\ compressor.compression_history[Len(compressor.compression_history)].event
          = "adaptive_update"

\* a saving compressor whose compress_space raised inside _save_compression_info: the
\* pipeline compressed and the spaces were copied, but no event was appended
C16_CompressSpaceWithoutEvent ==
    /\ compressor.phase = "called" /\ compressor.save_compression_info
    /\ compressor.op = "compress_space" /\ compressor.raised
    /\ compressed = "ok" /\ ~compressor.surrogate_space.none
    /\ compressor.compression_history = <<>>

(***************************************************************************)
(* The range-compression variants (steps/range) on a space of two numeric  *)
(* parameters, under a filling strategy whose fixed_values name some of    *)
(* them.  samples are the top observations of the history, one row of      *)
(* values per observation.  The attribution values of the SHAP variant and *)
(* the density of the KDE variant come from external estimators: the model *)
(* lets them produce any interval the code's arithmetic on them can yield. *)
(***************************************************************************)
MaxRows == 2    \* number of top observations: 0..MaxRows

RangeParams == 1..2

RangeHps ==
    {hp \in Hyperparameters :
        ValidHyperparameter(hp) /\ hp.lower = 0 /\ hp.upper = MaxUpper /\ hp.q = 0}

\* the values the observations take
RangeValues == {1, 2}

\* the observations in one order (no variant's arithmetic in the model depends on it)
RowLeq(r, t) == r[1] < t[1] \/ (r[1] = t[1] /\ r[2] <= t[2])

RangeSamples ==
    {s \in UNION {[1..n -> [RangeParams -> RangeValues]] : n \in 0..MaxRows} :
        \A k \in 1..(Len(s) - 1) : RowLeq(s[k], s[k + 1])}

\* the values of parameter i in the observations
Column(samples, i) == [k \in 1..Len(samples) |-> samples[k][i]]

\* expert_ranges: entries [name, min_val, max_val]
ExpertRangeArgs ==
    { {},
      {[name |-> 1, min_val |-> 1, max_val |-> 3]},
      {[name |-> 1, min_val |-> 1, max_val |-> 3], [name |-> 2, min_val |-> 2, max_val |-> 4]},
      {[name |-> 2, min_val |-> 3, max_val |-> 1]} }

RangeStep(method, sigma, expert_ranges) ==
    [method |-> method, sigma |-> sigma, expert_ranges |-> expert_ranges]

RangeSteps ==
    {RangeStep("boundary", sigma, {}) : sigma \in {0, 2}}
    \cup {RangeStep("shap_boundary", 2, {}), RangeStep("kde_boundary", 2, {})}
    \cup {RangeStep("expert", 2, r) : r \in ExpertRangeArgs}

\* a hyperparameter the output space keeps as the input space has it
Kept(hp) == [lower |-> Frac(hp.lower, 1), upper |-> Frac(hp.upper, 1), replaced |-> FALSE]

\* RangeCompressionStep._get_fixed_params
get_fixed_params(filling_strategy) ==
    IF filling_strategy.none THEN {} ELSE filling_strategy.fixed_values

NoFilling == [none |-> TRUE, fixed_values |-> {}]

FillingStrategy(fixed_values) == [none |-> FALSE, fixed_values |-> fixed_values]

\* the intervals with ends among points
Intervals(points) ==
    {r \in [min_val : points, max_val : points] : r.min_val <= r.max_val}

\* the points of the density grid np.linspace(lower, upper, grid_size) the model keeps
KDEGrid(hp) == {hp.lower, hp.lower + 1, hp.upper}

\* BoundaryRangeStep._compute_compressed_space: every numeric parameter gets a range
BoundaryRanges(step, space, samples) ==
    [i \in RangeParams |->
        compute_compressed_space(space[i], step.sigma, Column(samples, i))]

\* ExpertRangeStep._compute_compressed_space: the valid expert ranges, clamped
ExpertValid(space, e) ==
    /\ e.name \in RangeParams
    /\ e.min_val < e.max_val
    /\ Max2(e.min_val, space[e.name].lower) < Min2(e.max_val, space[e.name].upper)

ExpertRanges(step, space) ==
    [i \in RangeParams |->
        IF \E e \in step.expert_ranges : e.name = i /\ ExpertValid(space, e)
        THEN LET e == CHOOSE x \in step.expert_ranges : x.name = i
             IN create_space_from_ranges(space[i],
                    [min_val |-> Frac(Max2(e.min_val, space[i].lower), 1),
                     max_val |-> Frac(Min2(e.max_val, space[i].upper), 1)])
        ELSE Kept(space[i])]

\* KDEBoundaryRangeStep._compute_kde_based_ranges: fixed parameters are skipped; est[i]
\* is the interval of the grid points the density selects
KDERanges(step, space, samples, fixed_params, est) ==
    [i \in RangeParams |->
        IF samples = <<>> \/ i \in fixed_params THEN Kept(space[i])
        ELSE create_space_from_ranges(space[i],
                 clamp_range_bounds(Frac(est[i].min_val, 1), Frac(est[i].max_val, 1),
                                    Column(samples, i), space[i]))]

\* SHAPBoundaryRangeStep._compute_shap_based_ranges: est[i] is the cut of the weighted
\* mean -/+ sigma * std against the observed minimum and maximum
SHAPRanges(step, space, samples, est) ==
    [i \in RangeParams |->
        IF samples = <<>> THEN Kept(space[i])
        ELSE create_space_from_ranges(space[i],
                 clamp_range_bounds(Frac(est[i].min_val, 1), Frac(est[i].max_val, 1),
                                    Column(samples, i), space[i]))]

\* what est may be for the step's variant and the observations
Estimates(step, space, samples) ==
    IF samples = <<>> \/ step.method \notin {"shap_boundary", "kde_boundary"}
    THEN {<<[min_val |-> space[1].lower, max_val |-> space[1].upper],
            [min_val |-> space[2].lower, max_val |-> space[2].upper]>>}
    ELSE IF step.method = "kde_boundary"
    THEN {<<e1, e2>> : e1 \in Intervals(KDEGrid(space[1])),
                        e2 \in Intervals(KDEGrid(space[2]))}
    ELSE {<<e1, e2>> :
             e1 \in Intervals(MinOf(Column(samples, 1))..MaxOf(Column(samples, 1))),
             e2 \in Intervals(MinOf(Column(samples, 2))..MaxOf(Column(samples, 2)))}

\* the SHAP variant reads beneficial_similarities, which it binds only under
\* source_similarities
RangeRaises(step, samples, source_similarities) ==
    step.method = "shap_boundary" /\ samples # <<>> /\ ~source_similarities

\* RangeCompressionStep.compress(input_space, space_history, source_similarities)
RangeOutput(step, space, samples, filling_strategy, est) ==
    CASE step.method = "boundary" -> BoundaryRanges(step, space, samples)
      [] step.method = "expert" -> ExpertRanges(step, space)
      [] step.method = "kde_boundary" ->
            KDERanges(step, space, samples, get_fixed_params(filling_strategy), est)
      [] OTHER -> SHAPRanges(step, space, samples, est)

RangeStepInit ==
    \E step \in RangeSteps, hp1 \in RangeHps, hp2 \in RangeHps,
       fixed_values \in SUBSET RangeParams :
        rangestep = [phase |-> "built", step |-> step, space |-> <<hp1, hp2>>,
                     filling_strategy |-> FillingStrategy(fixed_values),
                     caller |-> "none", n_samples |-> 0, raised |-> FALSE,
                     out |-> [i \in RangeParams |-> Kept(<<hp1, hp2>>[i])]]

\* step.compress(current_space, space_history, source_similarities) as the loop of
\* compress_space runs it, with the filling strategy the pipeline handed the step
StepCompressCall(caller, samples, source_similarities) ==
    \E est \in Estimates(rangestep.step, rangestep.space, samples) :
        rangestep' =
           [rangestep EXCEPT
               !.phase = "compressed", !.caller = caller, !.n_samples = Len(samples),
               !.raised = RangeRaises(rangestep.step, samples, source_similarities),
               !.out = IF RangeRaises(rangestep.step, samples, source_similarities)
                       THEN @
                       ELSE RangeOutput(rangestep.step, rangestep.space, samples,
                                        rangestep.filling_strategy, est)]

\* the caller's compress_space(space, space_history, source_similarities)
RangeCompress(samples, source_similarities) ==
    /\ StepCompressCall("compress_space", samples, source_similarities)
    /\ UNCHANGED notrangestep

\* the re-compression of update_compression(history):
\* compress_space(start_space, [history] if history else None, source_similarities=None)
RangeRecompress(samples) ==
    /\ StepCompressCall("update_compression", samples, FALSE)
    /\ UNCHANGED notrangestep

RangeStepNext ==
    \/ \E samples \in RangeSamples, source_similarities \in BOOLEAN :
          RangeCompress(samples, source_similarities)
    \/ \E samples \in RangeSamples : RangeRecompress(samples)

InitRangeStep ==
    /\ RangeStepInit /\ PipeIdle /\ quant = NoQuant /\ embed = NoEmbed
    /\ boundary = NoBoundary /\ selection = NoSelection /\ factory = NoFactory
    /\ mixed = NoMixed
    /\ adaptstep = NoAdaptive
    /\ quantupd = NoQuantUpd
    /\ progop = NoProgOp
    /\ compressor = NoCompressor
    /\ e2e = NoEndToEnd
    /\ pointop = NoPointOp

SpecRangeStep == InitRangeStep /\ [][RangeStepNext]_vars

\* parameter i has in the output space the bounds it has in the input space
KeepsInputBounds(i) ==
    /\ rangestep.out[i].lower = Frac(rangestep.space[i].lower, 1)
    /\ rangestep.out[i].upper = Frac(rangestep.space[i].upper, 1)

\* C17: every range-compression variant skips the parameters fixed by the filling
\* strategy: a parameter with an entry in fixed_values keeps exactly its input bounds
\* in the step's output space.
C17_FixedParamsKeepBounds ==
    (rangestep.phase = "compressed" /\ ~rangestep.raised) =>
        \A i \in get_fixed_params(rangestep.filling_strategy) : KeepsInputBounds(i)

\* the KDE variant alone skips them
C17_KDESkipsFixed ==
    (rangestep.phase = "compressed" /\ rangestep.step.method = "kde_boundary") =>
        \A i \in get_fixed_params(rangestep.filling_strategy) : KeepsInputBounds(i)

\* a variant narrowed a parameter the filling strategy fixes
C17_FixedNarrowedBy(method) ==
    /\ rangestep.phase = "compressed" /\ ~rangestep.raised
    /\ rangestep.step.method = method
    /\ \E i \in get_fixed_params(rangestep.filling_strategy) : ~KeepsInputBounds(i)

\* C23: update_compression never fails because of missing task similarities: its
\* re-compression passes source_similarities = None to every step, and for every
\* range-compression variant (boundary, SHAP boundary, KDE, expert) with a
\* non-empty history the call completes without raising and yields a space with
\* the parameter set of its input.
C23_RecompressionCompletes ==
    (rangestep.phase = "compressed" /\ rangestep.caller = "update_compression"
     /\ rangestep.n_samples > 0) =>
        /\ ~rangestep.raised
        /\ DOMAIN rangestep.out = DOMAIN rangestep.space

\* the boundary, KDE and expert variants do complete without similarities
C23_OtherVariantsComplete ==
    (rangestep.phase = "compressed" /\ rangestep.caller = "update_compression"
     /\ rangestep.n_samples > 0 /\ rangestep.step.method # "shap_boundary") =>
        /\ ~rangestep.raised
        /\ DOMAIN rangestep.out = DOMAIN rangestep.space

\* the SHAP variant raised in a re-compression over a history with observations
C23_SHAPVariantRaised ==
    /\ rangestep.phase = "compressed" /\ rangestep.caller = "update_compression"
    /\ rangestep.n_samples > 0 /\ rangestep.step.method = "shap_boundary"
    /\ rangestep.raised

(***************************************************************************)
(* End to end: a Compressor over the chain [importance-based dimension     *)
(* selection with target k, boundary range compression] on the caller's    *)
(* space of NParams numeric parameters.  The pipeline operators above      *)
(* give the parameter sets; the boundary arithmetic gives the bounds of    *)
(* each parameter of the surrogate space.  Every parameter has the same    *)
(* hyperparameter definition, and the top observations give every          *)
(* parameter the same values.                                              *)
(***************************************************************************)
EndToEndHps ==
    {hp \in Hyperparameters :
        /\ ValidHyperparameter(hp)
        /\ hp.lower \in {0, 1} /\ hp.upper \in {MaxUpper - 1, MaxUpper}}

EndToEndSteps ==
    {DimStep("shap", "shap", k, "shap", NoStrategy, <<>>, <<>>) : k \in 1..NParams}
    \cup {DimStep("adaptive", "adaptive", k, "shap", Periodic(5), <<>>, <<>>) :
             k \in 1..NParams}

\* the values of the top observations: at most MaxRows of them
EndToEndValues(hp) == {values \in SampleSeqs(hp) : Len(values) <= MaxRows}

EndToEndPipe(step) ==
    [steps |-> <<step, BoundaryStep(FALSE)>>, original_space |-> CallerSpace,
     space_after_steps |-> <<>>, sample_space |-> NoneSpace,
     surrogate_space |-> NoneSpace, unprojected_space |-> NoneSpace,
     sampling_strategy |-> NoSampling]

NoSummary == [empty |-> TRUE, original_dimensions |-> 0, sample_dimensions |-> 0,
              surrogate_dimensions |-> 0, surrogate_compression_ratio |-> Frac(0, 1)]

\* Compressor.get_compression_summary
get_compression_summary(C) ==
    IF ~Truthy(C.sample_space) \/ ~Truthy(C.surrogate_space) THEN NoSummary
    ELSE [empty |-> FALSE,
          original_dimensions |-> NumParams(CallerSpace),
          sample_dimensions |-> NumParams(C.sample_space),
          surrogate_dimensions |-> NumParams(C.surrogate_space),
          surrogate_compression_ratio |->
              Frac(NumParams(C.surrogate_space), NumParams(CallerSpace))]

\* the bounds of the parameters of the surrogate space: the boundary step's
\* arithmetic on each parameter the selection step kept
SurrogateRanges(surrogate, hp, sigma, values) ==
    [k \in 1..NumParams(surrogate) |-> compute_compressed_space(hp, sigma, values)]

EndToEndInit ==
    \E step \in EndToEndSteps, hp \in EndToEndHps :
        e2e = [phase |-> "built", pipe |-> EndToEndPipe(step), hp |-> hp, sigma |-> 2,
               k |-> step.topk, compressor |-> CompressorInit(FALSE), n_values |-> 0,
               raised |-> FALSE, ranges |-> <<>>, summary |-> NoSummary]

\* compressor.compress_space([history]) on a history with observations, then
\* compressor.get_compression_summary()
EndToEndCompress(v, values) ==
    /\ \E c \in {compress_space(e2e.pipe, CallerSpace, HistList(<<MkHistory(v)>>))} :
       \E C \in {AfterCompressSpace(e2e.compressor, c.raised, c.pipe.steps,
                                    c.pipe.surrogate_space, c.pipe.sample_space,
                                    NoSimilarities)} :
          e2e' = [e2e EXCEPT
                     !.phase = "compressed", !.pipe = c.pipe, !.compressor = C,
                     !.n_values = Len(values), !.raised = C.raised,
                     !.ranges = IF C.raised THEN <<>>
                                ELSE SurrogateRanges(C.surrogate_space, e2e.hp,
                                                     e2e.sigma, values),
                     !.summary = get_compression_summary(C)]
    /\ UNCHANGED note2e

EndToEndNext ==
    \E v \in 1..MaxVal, values \in EndToEndValues(e2e.hp) : EndToEndCompress(v, values)

InitEndToEnd ==
    /\ EndToEndInit /\ PipeIdle /\ quant = NoQuant /\ embed = NoEmbed
    /\ boundary = NoBoundary /\ selection = NoSelection /\ factory = NoFactory
    /\ mixed = NoMixed
    /\ adaptstep = NoAdaptive
    /\ quantupd = NoQuantUpd
    /\ progop = NoProgOp
    /\ compressor = NoCompressor
    /\ rangestep = NoRangeStep
    /\ pointop = NoPointOp

SpecEndToEnd == InitEndToEnd /\ [][EndToEndNext]_vars

\* the surrogate space has exactly k parameters and the summary reports k / n
CountAndRatio ==
    /\ NumParams(e2e.compressor.surrogate_space) = e2e.k
    /\ Len(e2e.ranges) = e2e.k
    /\ ~e2e.summary.empty
    /\ e2e.summary.surrogate_dimensions = e2e.k
    /\ e2e.summary.surrogate_compression_ratio = Frac(e2e.k, NParams)

\* every parameter of the surrogate space has a range inside the original one
RangesContained ==
    \A i \in 1..Len(e2e.ranges) :
        /\ FracLeq(Frac(e2e.hp.lower, 1), e2e.ranges[i].lower)
        /\ FracLeq(e2e.ranges[i].upper, Frac(e2e.hp.upper, 1))

\* C18: end to end, for the chain [importance-based selection with topk = k, boundary
\* range compression] over n numeric parameters, k <= n, and a non-empty history,
\* the surrogate space has exactly k parameters, each with a range contained in the
\* original range, and the reported surrogate compression ratio is k / n.
C18_EndToEnd ==
    (e2e.phase = "compressed" /\ ~e2e.raised) => (CountAndRatio /\ RangesContained)

\* the count and the ratio alone
C18_CountAndRatio ==
    (e2e.phase = "compressed" /\ ~e2e.raised) => CountAndRatio

\* the containment for parameters without a quantization step
C18_ContainedWithoutQ ==
    (e2e.phase = "compressed" /\ ~e2e.raised /\ e2e.hp.q = 0) => RangesContained

\* k of the n parameters were kept, and one of them came out of the range step wider
\* than the caller's bounds
C18_SurrogateRangeOutside ==
    /\ e2e.phase = "compressed" /\ ~e2e.raised
    /\ CountAndRatio /\ e2e.k < NParams
    /\ ~RangesContained

(***************************************************************************)
(* Properties of the pipeline's sampling strategy.                         *)
(***************************************************************************)
\* the steps that supply a sampling strategy, as they are now
Suppliers == {i \in 1..Len(steps) : get_sampling_strategy(steps[i]) # NoSampling}

\* C21: after every compression the active sampling strategy is the one of the
\* last step (scanning backward from the end of the chain) whose
\* get_sampling_strategy() is not None; if no step supplies one it is a Standard
\* strategy over the pipeline's sample_space.
C21_ActiveSamplingStrategy ==
    compressed = "ok" =>
        IF Suppliers = {}
        THEN sampling_strategy = [kind |-> "standard", space |-> sample_space,
                                  original_space |-> NoneSpace]
        ELSE \E i \in Suppliers :
                /\ \A j \in Suppliers : j <= i
                /\ sampling_strategy = get_sampling_strategy(steps[i])

\* C21's case: two steps supply different strategies and the later one is active
C21_Witness ==
    /\ compressed = "ok" /\ Len(steps) = 2 /\ Suppliers = {1, 2}
    /\ get_sampling_strategy(steps[1]) # get_sampling_strategy(steps[2])
    /\ sampling_strategy = get_sampling_strategy(steps[2])

\* the other two branches: a supplier followed by a step without a strategy, and a
\* chain without suppliers
C21_EarlierSupplierTaken ==
    /\ compressed = "ok" /\ Len(steps) = 2 /\ Suppliers = {1}
    /\ sampling_strategy = get_sampling_strategy(steps[1])

C21_StandardTaken ==
    /\ compressed = "ok" /\ Suppliers = {} /\ sampling_strategy.kind = "standard"
    /\ sampling_strategy.space = sample_space /\ sample_space # original_space

\* C22: whenever the active sampling strategy is a Mixed-Range strategy supplied
\* by a range step, the compressed space it draws from is the pipeline's current
\* sample_space, for every step chain.
C22_MixedDrawsFromSampleSpace ==
    (compressed = "ok" /\ sampling_strategy.kind = "mixed") =>
        sampling_strategy.space = sample_space

\* what the code keeps: the Mixed-Range strategy draws from the output space of the
\* range step that supplied it, which is the sample space when no later step
\* affects the sampling space
C22_DrawsFromSupplierOutput ==
    (compressed = "ok" /\ sampling_strategy.kind = "mixed") =>
        \E i \in Suppliers :
            /\ \A j \in Suppliers : j <= i
            /\ sampling_strategy.space = steps[i].output_space
            /\ (\A j \in (i + 1)..Len(steps) : ~affects_sampling_space(steps[j]))
                   => sampling_strategy.space = sample_space

\* a random embedding after the range step: samples of the strategy come from the
\* range step's output while the sample space is the embedding's low-dimensional space
C22_DrawsOutsideSampleSpace ==
    /\ compressed = "ok" /\ sampling_strategy.kind = "mixed"
    /\ Len(steps) = 2 /\ steps[2].kind = "hesbo"
    /\ sampling_strategy.space = steps[1].output_space
    /\ sample_space = steps[2].output_space
    /\ NumParams(sample_space) < NumParams(sampling_strategy.space)

(***************************************************************************)
(* Point conversion (core/pipeline.py unproject_point / project_point and  *)
(* the steps' conversions).  A point is the sequence of the parameter      *)
(* names its dictionary holds and a key that stands for its values.        *)
(***************************************************************************)
MaxPoints == 2

PointKeys == 1..MaxPoints

\* the key of a dictionary whose low-dimensional entries are all missing (None)
NoneKey == 0

Point(names, key) == [names |-> names, key |-> key]

\* [raised, point, step, hit] of a conversion that returned
Converted(point, step, hit) == [raised |-> FALSE, point |-> point, step |-> step, hit |-> hit]

ConversionRaised(point, step) == [raised |-> TRUE, point |-> point, step |-> step, hit |-> FALSE]

\* faulty variant of EmbeddingUnprojectPoint: a memo entry is used only when it was
\* built for the step's current parameters
EmbeddingUnprojectPoint_Fresh(step, point) ==
    LET low_dim_key ==
            IF \A k \in 1..step.low_dim : NameIn(point.names, [b |-> step.method, i |-> k])
            THEN point.key ELSE NoneKey
    IN IF ~step.scaler \/ low_dim_key = NoneKey THEN ConversionRaised(point, step)
       ELSE Converted(Point(step.active_hps, point.key),
                      [step EXCEPT !.low_to_high_cache =
                          CachePut(@, low_dim_key, step.active_hps)], FALSE)

\* HesBOProjectionStep.unproject_point / REMBOProjectionStep.unproject_point
EmbeddingUnprojectPoint(step, point) ==
    LET low_dim_key ==
            IF \A k \in 1..step.low_dim : NameIn(point.names, [b |-> step.method, i |-> k])
            THEN point.key ELSE NoneKey
    IN IF InCache(step.low_to_high_cache, low_dim_key)
       THEN Converted(Point(CacheGet(step.low_to_high_cache, low_dim_key), point.key),
                      step, TRUE)
       ELSE IF ~step.scaler \/ low_dim_key = NoneKey
       THEN ConversionRaised(point, step)      \* None._scaler / arithmetic on None
       ELSE Converted(Point(step.active_hps, point.key),
                      [step EXCEPT !.low_to_high_cache =
                          CachePut(@, low_dim_key, step.active_hps)], FALSE)

\* QuantizationProjectionStep.unproject_point on the names of the dictionary
QuantUnprojectNames(step, point) ==
    IF step.input_space.none THEN ConversionRaised(point, step)
    ELSE Converted(
             Point([k \in 1..Len(point.names) |->
                      LET name == point.names[k]
                          dim_name == [b |-> "p", i |-> name.i]
                      IN IF name.b = "q" /\ NameIn(step.input_space.names, dim_name)
                            /\ dim_name \in step.knobs_scalers
                         THEN dim_name ELSE name],
                   point.key),
             step, FALSE)

\* step.unproject_point(point)
StepUnprojectPoint(step, point) ==
    CASE step.kind = "hesbo" -> EmbeddingUnprojectPoint(step, point)
      [] step.kind = "quant" -> QuantUnprojectNames(step, point)
      [] OTHER -> Converted(point, step, FALSE)

\* step.project_point(point); the pipeline has no filling strategy
StepProjectPoint(step, point) ==
    CASE IsDimension(step) ->
            Converted(Point(IF step.selected_param_names = <<>> THEN point.names
                            ELSE SelectSeq(step.selected_param_names,
                                           LAMBDA name : NameIn(point.names, name)),
                            point.key), step, FALSE)
      [] step.kind = "quant" ->
            Converted(Point([k \in 1..Len(point.names) |->
                               IF point.names[k] \in step.knobs_scalers
                               THEN [b |-> "q", i |-> point.names[k].i]
                               ELSE point.names[k]], point.key), step, FALSE)
      [] step.kind = "hesbo" ->
            Converted(Point([k \in 1..step.low_dim |-> [b |-> step.method, i |-> k]],
                            point.key), step, FALSE)
      [] step.kind = "kpca" ->
            Converted(Point(IF ~step.fitted THEN <<>>
                            ELSE [k \in 1..step.n_components |-> [b |-> "kpca", i |-> k]],
                            point.key), step, FALSE)
      [] OTHER -> Converted(point, step, FALSE)

\* what a pipeline conversion did: the steps it called in call order, what each
\* returned, which returns came from a memo, and the dictionary in the end
Conversion(raised, sts, point, calls, returns, hits) ==
    [raised |-> raised, steps |-> sts, point |-> point, calls |-> calls,
     returns |-> returns, hits |-> hits]

\* the loop of unproject_point from step i down
RECURSIVE UnprojectFrom(_, _, _, _, _, _)
UnprojectFrom(sts, i, point, calls, returns, hits) ==
    IF i = 0 THEN Conversion(FALSE, sts, point, calls, returns, hits)
    ELSE IF ~needs_unproject(sts[i])
    THEN UnprojectFrom(sts, i - 1, point, calls, returns, hits)
    ELSE With(StepUnprojectPoint(sts[i], point),
              LAMBDA r :
                 IF r.raised
                 THEN Conversion(TRUE, sts, point, Append(calls, i), returns, hits)
                 ELSE UnprojectFrom([sts EXCEPT ![i] = r.step], i - 1, r.point,
                                    Append(calls, i), Append(returns, r.point.names),
                                    Append(hits, r.hit)))

\* is the step's conversion called by the forward loop of the given call?
Applies(op, step) ==
    IF op = "project_point" THEN ~step.input_space.none ELSE needs_unproject(step)

\* the loop of project_point (and of the faulty forward unproject loop) from step i up
RECURSIVE ConvertUpFrom(_, _, _, _, _, _, _)
ConvertUpFrom(op, sts, i, point, calls, returns, hits) ==
    IF i > Len(sts) THEN Conversion(FALSE, sts, point, calls, returns, hits)
    ELSE IF ~Applies(op, sts[i])
    THEN ConvertUpFrom(op, sts, i + 1, point, calls, returns, hits)
    ELSE With(IF op = "project_point" THEN StepProjectPoint(sts[i], point)
              ELSE StepUnprojectPoint(sts[i], point),
              LAMBDA r :
                 IF r.raised
                 THEN Conversion(TRUE, sts, point, Append(calls, i), returns, hits)
                 ELSE ConvertUpFrom(op, [sts EXCEPT ![i] = r.step], i + 1, r.point,
                                    Append(calls, i), Append(returns, r.point.names),
                                    Append(hits, r.hit)))

\* faulty variant of pipeline_unproject_point: the steps are walked in forward order
pipeline_unproject_point_Forward(sts, point) ==
    ConvertUpFrom("unproject_point", sts, 1, point, <<>>, <<>>, <<>>)

\* CompressionPipeline.unproject_point(point)
pipeline_unproject_point(sts, point) ==
    UnprojectFrom(sts, Len(sts), point, <<>>, <<>>, <<>>)

\* CompressionPipeline.project_point(point)
pipeline_project_point(sts, point) ==
    ConvertUpFrom("project_point", sts, 1, point, <<>>, <<>>, <<>>)

(***************************************************************************)
(* The pipeline with its point conversions as a state machine: the caller  *)
(* interleaves compress_space, update_compression, unproject_point on a    *)
(* configuration of the surrogate space and project_point on a             *)
(* configuration of its own space.                                         *)
(***************************************************************************)
PointChains ==
    { <<QuantStep(90, FALSE), HesBOStep(2)>>,
      <<HesBOStep(2), QuantStep(90, FALSE)>>,
      <<DimStep("shap", "shap", 2, "shap", NoStrategy, <<>>, <<>>), HesBOStep(2)>>,
      <<DimStep("adaptive", "adaptive", 2, "corr", Periodic(2), <<>>, <<>>),
        REMBOStep(2)>>,
      <<BoundaryStep(FALSE), KPCAStep(2)>> }

PointHistLists == {NoList, HistList(<<MkHistory(1)>>), HistList(<<MkHistory(2)>>)}

PointHistories == {MkHistory(1)}

PointOp(op, c, arg) ==
    [op |-> op, raised |-> c.raised, arg |-> arg, calls |-> c.calls,
     returns |-> c.returns, hits |-> c.hits, names |-> c.point.names]

NoConversion(raised) == Conversion(raised, <<>>, Point(<<>>, NoneKey), <<>>, <<>>, <<>>)

notpipepointop == <<quant, embed, boundary, selection, factory, mixed, adaptstep, quantupd, progop, compressor, rangestep, e2e>>

pipeButSteps == <<original_space, space_after_steps, sample_space, surrogate_space,
                  unprojected_space, sampling_strategy, progress, last, compressed>>

\* pipeline.compress_space(space, space_history)
PointCompressSpace(hl) ==
    /\ CompressSpaceCall(hl)
    /\ pointop' = PointOp("compress_space", NoConversion(compressed' = "raised"), <<>>)
    /\ UNCHANGED notpipepointop

\* pipeline.update_compression(history)
PointUpdateCompression(history) ==
    /\ UpdateCompressionCall(history)
    /\ pointop' = PointOp("update_compression", NoConversion(last'.raised), <<>>)
    /\ UNCHANGED notpipepointop

\* pipeline.unproject_point(configuration of the surrogate space)
UnprojectPoint(key) ==
    /\ Truthy(surrogate_space)
    /\ \E c \in {pipeline_unproject_point(steps, Point(surrogate_space.names, key))} :
          /\ steps' = c.steps
          /\ pointop' = PointOp("unproject_point", c, surrogate_space.names)
    /\ UNCHANGED <<pipeButSteps, notpipepointop>>

\* pipeline.unproject_point before anything was compressed, on a dictionary of the
\* caller's own parameters
UnprojectEarly(key) ==
    /\ ~Truthy(surrogate_space)
    /\ \E c \in {pipeline_unproject_point(steps, Point(CallerSpace.names, key))} :
          /\ steps' = c.steps
          /\ pointop' = PointOp("unproject_point", c, CallerSpace.names)
    /\ UNCHANGED <<pipeButSteps, notpipepointop>>

\* pipeline.project_point(configuration of the caller's space)
ProjectPoint(key) ==
    /\ \E c \in {pipeline_project_point(steps, Point(CallerSpace.names, key))} :
          /\ steps' = c.steps
          /\ pointop' = PointOp("project_point", c, CallerSpace.names)
    /\ UNCHANGED <<pipeButSteps, notpipepointop>>

InitPoint ==
    /\ steps \in PointChains
    /\ original_space \in {NoneSpace, CallerSpace}
    /\ space_after_steps = <<>>
    /\ sample_space = NoneSpace
    /\ surrogate_space = NoneSpace
    /\ unprojected_space = NoneSpace
    /\ sampling_strategy = NoSampling
    /\ progress = ProgressInit
    /\ last = NoCall
    /\ compressed = "never"
    /\ quant = NoQuant /\ embed = NoEmbed
    /\ boundary = NoBoundary /\ selection = NoSelection /\ factory = NoFactory
    /\ mixed = NoMixed
    /\ adaptstep = NoAdaptive
    /\ quantupd = NoQuantUpd
    /\ progop = NoProgOp
    /\ compressor = NoCompressor
    /\ rangestep = NoRangeStep
    /\ e2e = NoEndToEnd
    /\ pointop = PointOp("none", NoConversion(FALSE), <<>>)

NextPoint ==
    \/ \E hl \in PointHistLists : PointCompressSpace(hl)
    \/ \E history \in PointHistories : PointUpdateCompression(history)
    \/ \E key \in PointKeys : UnprojectPoint(key)
    \/ \E key \in PointKeys : UnprojectEarly(key)
    \/ \E key \in PointKeys : ProjectPoint(key)

SpecPoint == InitPoint /\ [][NextPoint]_vars

\* seq lists the members of S in falling (rising) order, or a part of that list
\* from its start
IsFallingPrefix(seq, S) ==
    /\ \A k \in 1..Len(seq) : seq[k] \in S
    /\ \A k \in 1..Len(seq) : \A i \in S : i > seq[k] => \E l \in 1..(k - 1) : seq[l] = i
    /\ \A k, l \in 1..Len(seq) : k < l => seq[k] > seq[l]

IsRisingPrefix(seq, S) ==
    /\ \A k \in 1..Len(seq) : seq[k] \in S
    /\ \A k \in 1..Len(seq) : \A i \in S : i < seq[k] => \E l \in 1..(k - 1) : seq[l] = i
    /\ \A k, l \in 1..Len(seq) : k < l => seq[k] < seq[l]

\* C24: pipeline.unproject_point calls unproject_point of exactly the steps whose
\* needs_unproject() is true, in reverse step order, and no other step;
\* pipeline.project_point calls project_point of every step whose input_space is
\* set, in forward step order.  (A call that a step's conversion ends with an
\* exception has made the calls of that order up to the raising step.)
C24_ConversionOrder ==
    LET U == {i \in 1..Len(steps) : needs_unproject(steps[i])}
        P == {i \in 1..Len(steps) : ~steps[i].input_space.none}
    IN /\ pointop.op = "unproject_point" =>
             /\ IsFallingPrefix(pointop.calls, U)
             /\ ~pointop.raised => Len(pointop.calls) = Cardinality(U)
       /\ pointop.op = "project_point" =>
             /\ IsRisingPrefix(pointop.calls, P)
             /\ ~pointop.raised => Len(pointop.calls) = Cardinality(P)

\* C24's case: a chain of two steps that both need unprojection, converted back
\* last step first
C24_Witness ==
    /\ pointop.op = "unproject_point" /\ ~pointop.raised
    /\ pointop.calls = <<2, 1>>
    /\ pointop.names = CallerSpace.names /\ pointop.arg # pointop.names

\* a step that needs no unprojection is skipped, and project_point runs forward
C24_StepSkipped ==
    /\ pointop.op = "unproject_point" /\ ~pointop.raised
    /\ Len(steps) = 2 /\ pointop.calls = <<2>>

C24_ProjectForward ==
    /\ pointop.op = "project_point" /\ ~pointop.raised
    /\ pointop.calls = <<1, 2>> /\ pointop.names # pointop.arg

C24_ProjectBeforeCompression ==
    /\ pointop.op = "project_point" /\ pointop.calls = <<>> /\ pointop.names = pointop.arg

\* C27: after any sequence of compress_space / update_compression calls
\* interleaved with unproject_point calls, the dictionary a REMBO or HesBO step
\* returns from unproject_point has exactly the parameter names of that step's
\* current input space.
C27_NoStaleUnprojection ==
    (pointop.op = "unproject_point") =>
        \A k \in 1..Len(pointop.returns) :
            steps[pointop.calls[k]].kind = "hesbo" =>
                SeqToSet(pointop.returns[k]) =
                    SeqToSet(steps[pointop.calls[k]].input_space.names)

\* what the code keeps: a dictionary the step computes (no memo entry for the
\* point) has the names of the current input space
C27_ComputedIsCurrent ==
    (pointop.op = "unproject_point") =>
        \A k \in 1..Len(pointop.returns) :
            (steps[pointop.calls[k]].kind = "hesbo" /\ ~pointop.hits[k]) =>
                SeqToSet(pointop.returns[k]) =
                    SeqToSet(steps[pointop.calls[k]].input_space.names)

\* a memo entry built for an earlier input space came back after a re-compression
C27_StaleEntryReturned ==
    /\ pointop.op = "unproject_point" /\ ~pointop.raised
    /\ \E k \in 1..Len(pointop.returns) :
          /\ steps[pointop.calls[k]].kind = "hesbo" /\ pointop.hits[k]
          /\ SeqToSet(pointop.returns[k]) #
                 SeqToSet(steps[pointop.calls[k]].input_space.names)

C27_StaleAfterUpdateCompression ==
    /\ C27_StaleEntryReturned
    /\ last.op = "update_compression" /\ last.restarted

(***************************************************************************)
(* The target size of an adaptive dimension step under repeated updates    *)
(* (adaptive.py update with the policies of core/update.py).  A step is    *)
(* built with a strategy, initial_topk, reduction_ratio, min_dimensions    *)
(* and max_dimensions; each call shows it a progress record of the         *)
(* optimizer, which decides whether and how the strategy fires.            *)
(***************************************************************************)
DefaultInitialTopk == 30

DefaultMinDimensions == 5

\* cap on the target size a step without max_dimensions may grow to
TopkCap == 45

\* updates that moved the target are counted up to this number
MaxFired == 3

\* reduction_ratio as <<numerator, denominator>>: 0.2 (the default), 0.5, 0.9
Ratios == {<<1, 5>>, <<1, 2>>, <<9, 10>>}

TopkStrategies ==
    {Periodic(5), Improvement(3), Stagnation(5), Hybrid(10, 5, 3),
     Composite(<<Stagnation(5), Improvement(3)>>)}

\* AdaptiveDimensionStep(update_strategy, initial_topk, reduction_ratio,
\* min_dimensions, max_dimensions); max_dimensions = 0 is None
TopkSteps ==
    {[DimStep("adaptive", "adaptive", initial_topk, "shap", u, <<>>, <<>>)
         EXCEPT !.rnum = ratio[1], !.rden = ratio[2],
                !.min_dimensions = min_dimensions, !.max_dimensions = max_dimensions] :
        u \in TopkStrategies, ratio \in Ratios,
        initial_topk \in (2..MaxTopk) \cup {DefaultInitialTopk},
        min_dimensions \in {1, 2, DefaultMinDimensions},
        max_dimensions \in {0, MaxTopk, DefaultInitialTopk}}

\* progress records of an optimizer: an iteration count that is or is not a
\* multiple of the periods, with a run of improvements, a run of stagnation or neither
TopkProgress ==
    {[ProgressInit EXCEPT !.iteration = it, !.best_value_history_len = it,
                          !.improvement_count = c[1], !.stagnation_count = c[2],
                          !.last_best_value = 1] :
        it \in {7, 10}, c \in {<<0, 0>>, <<3, 0>>, <<0, 5>>}}

TopkInit ==
    \E step \in TopkSteps :
        adaptstep = [phase |-> "built", step |-> step, progress |-> ProgressInit,
                    should |-> FALSE, ret |-> FALSE, old_topk |-> step.current_topk,
                    fired |-> 0]

\* step.update(progress, history)
TopkUpdate(p) ==
    /\ \E r \in {AdaptiveUpdate(adaptstep.step, p)} :
          /\ r.step.current_topk <= TopkCap
          /\ adaptstep' = [phase |-> "updated", step |-> r.step, progress |-> p,
                          should |-> should_update(adaptstep.step.update_strategy, p),
                          ret |-> r.updated, old_topk |-> adaptstep.step.current_topk,
                          fired |-> IF r.updated THEN Min2(adaptstep.fired + 1, MaxFired)
                                    ELSE adaptstep.fired]
    /\ UNCHANGED notadaptstep

\* an update call at which the step's strategy fires
TriggeredUpdate ==
    \E p \in TopkProgress :
        should_update(adaptstep.step.update_strategy, p) /\ TopkUpdate(p)

\* an update call at which it does not
IdleUpdate ==
    \E p \in TopkProgress :
        ~should_update(adaptstep.step.update_strategy, p) /\ TopkUpdate(p)

InitTopk ==
    /\ TopkInit /\ PipeIdle /\ quant = NoQuant /\ embed = NoEmbed
    /\ boundary = NoBoundary /\ selection = NoSelection /\ factory = NoFactory
    /\ mixed = NoMixed
    /\ quantupd = NoQuantUpd
    /\ progop = NoProgOp
    /\ compressor = NoCompressor
    /\ rangestep = NoRangeStep
    /\ e2e = NoEndToEnd
    /\ pointop = NoPointOp

NextTopk == TriggeredUpdate \/ IdleUpdate

SpecTopk == InitTopk /\ [][NextTopk]_vars

\* the caller keeps calling update, and the strategy keeps firing
SpecTopkLive == InitTopk /\ [][NextTopk]_vars /\ WF_vars(TriggeredUpdate)

\* the step of the documentation: every default but min_dimensions, which lies
\* below 19
DocumentedStep ==
    /\ adaptstep.step.update_strategy = Periodic(5)
    /\ adaptstep.step.initial_topk = DefaultInitialTopk
    /\ adaptstep.step.rnum = 1 /\ adaptstep.step.rden = 5
    /\ adaptstep.step.min_dimensions < 19

\* C25: from initial_topk = 30 with reduction_ratio = 0.2 (min_dimensions below
\* 19), two successive periodic updates set current_topk to 24 and then to 19.
C25_DocumentedSequence ==
    DocumentedStep =>
        /\ adaptstep.fired = 1 => adaptstep.step.current_topk = 24
        /\ adaptstep.fired = 2 => adaptstep.step.current_topk = 19

\* what the code computes: 30 - int(30 * 0.2) = 24, then 24 - int(24 * 0.2) = 20
C25_SequenceOfTheCode ==
    DocumentedStep =>
        /\ adaptstep.fired = 1 => adaptstep.step.current_topk = 24
        /\ adaptstep.fired = 2 => adaptstep.step.current_topk = 20

C25_SecondUpdateGives20 ==
    DocumentedStep /\ adaptstep.fired = 2 /\ adaptstep.step.current_topk = 20

\* min_dimensions <= initial_topk <= max_dimensions at construction
BuiltWithinBounds ==
    /\ adaptstep.step.max_dimensions # 0
    /\ adaptstep.step.min_dimensions <= adaptstep.step.initial_topk
    /\ adaptstep.step.initial_topk <= adaptstep.step.max_dimensions

\* C26: for a step built with min_dimensions <= initial_topk <= max_dimensions,
\* after any sequence of update calls with any built-in strategy,
\* min_dimensions <= current_topk <= max_dimensions; periodic and improvement
\* updates never increase current_topk and stagnation updates never decrease it.
C26_TargetWithinBounds ==
    BuiltWithinBounds =>
        /\ adaptstep.step.min_dimensions <= adaptstep.step.current_topk
        /\ adaptstep.step.current_topk <= adaptstep.step.max_dimensions
        /\ adaptstep.step.update_strategy.name \in {"periodic", "improvement"}
              => adaptstep.step.current_topk <= adaptstep.old_topk
        /\ adaptstep.step.update_strategy.name = "stagnation"
              => adaptstep.step.current_topk >= adaptstep.old_topk

\* C26's case: a stagnation update that max_dimensions cut short
C26_Witness ==
    /\ BuiltWithinBounds /\ adaptstep.phase = "updated" /\ adaptstep.ret
    /\ adaptstep.step.update_strategy.name = "stagnation"
    /\ adaptstep.step.current_topk = adaptstep.step.max_dimensions
    /\ adaptstep.old_topk + RatioOf(adaptstep.old_topk, adaptstep.step.rnum,
                                    adaptstep.step.rden) > adaptstep.step.max_dimensions

\* other cases: a reduction stopped at min_dimensions, a hybrid and a composite
\* strategy moving the target both ways
C26_ReducedToFloor ==
    /\ BuiltWithinBounds /\ adaptstep.phase = "updated" /\ adaptstep.ret
    /\ adaptstep.step.update_strategy.name = "periodic"
    /\ adaptstep.step.current_topk = adaptstep.step.min_dimensions
    /\ adaptstep.old_topk - RatioOf(adaptstep.old_topk, adaptstep.step.rnum,
                                    adaptstep.step.rden) < adaptstep.step.min_dimensions

C26_CompositeMoved(up) ==
    /\ BuiltWithinBounds /\ adaptstep.phase = "updated" /\ adaptstep.ret
    /\ adaptstep.step.update_strategy.name = "composite"
    /\ IF up THEN adaptstep.step.current_topk > adaptstep.old_topk
       ELSE adaptstep.step.current_topk < adaptstep.old_topk

\* a periodic or improvement step with a ratio in (0, 1) and initial_topk above
\* min_dimensions
ProgressiveStep ==
    /\ adaptstep.step.update_strategy.name \in {"periodic", "improvement"}
    /\ 0 < adaptstep.step.rnum /\ adaptstep.step.rnum < adaptstep.step.rden
    /\ adaptstep.step.initial_topk > adaptstep.step.min_dimensions

\* C30: for a periodic or improvement strategy, any reduction_ratio in (0, 1) and
\* any initial_topk > min_dimensions, if the strategy fires infinitely often then
\* current_topk eventually equals min_dimensions.
C30_ReachesFloor ==
    ProgressiveStep => <>(adaptstep.step.current_topk = adaptstep.step.min_dimensions)

\* what the code reaches: min_dimensions, or a target so small that
\* int(current_topk * reduction_ratio) is 0 and the reduction stops
C30_ReachesFloorOrStalls ==
    ProgressiveStep =>
        <>[](\/ adaptstep.step.current_topk = adaptstep.step.min_dimensions
             \/ RatioOf(adaptstep.step.current_topk, adaptstep.step.rnum,
                        adaptstep.step.rden) = 0)

\* the strategy fired, the target is above min_dimensions and did not move
C30_StalledAboveFloor ==
    /\ ProgressiveStep /\ adaptstep.phase = "updated" /\ adaptstep.should
    /\ ~adaptstep.ret
    /\ adaptstep.step.current_topk > adaptstep.step.min_dimensions
    /\ adaptstep.step.current_topk = adaptstep.old_topk

(***************************************************************************)
(* Re-compression and the importance ranking.  The pipeline runs over      *)
(* chains whose dimension step ranks by the SHAP calculator; the           *)
(* observation keeps the history the last update_compression was given.    *)
(***************************************************************************)
RerankChains ==
    { <<DimStep("adaptive", "adaptive", 2, "shap", Stagnation(2), <<>>, <<>>)>>,
      <<DimStep("adaptive", "adaptive", 2, "shap", Periodic(2), <<>>, <<>>)>>,
      <<DimStep("shap", "shap", 2, "shap", NoStrategy, <<>>, <<>>), QuantStep(90, TRUE)>> }

RerankHistLists == {NoList} \cup {HistList(<<MkHistory(v)>>) : v \in 1..MaxVal}

RerankHistories == {EmptyHistory} \cup {MkHistory(v) : v \in 1..MaxVal}

Given(op, history) == [op |-> op, history |-> history]

\* pipeline.compress_space(space, space_history)
RerankCompressSpace(hl) ==
    /\ CompressSpaceCall(hl)
    /\ progop' = Given("compress_space", NoHistory)
    /\ UNCHANGED notpipeprogop

\* pipeline.update_compression(history)
RerankUpdateCompression(history) ==
    /\ UpdateCompressionCall(history)
    /\ progop' = Given("update_compression", history)
    /\ UNCHANGED notpipeprogop

InitRerank ==
    /\ steps \in RerankChains
    /\ original_space \in {NoneSpace, CallerSpace}
    /\ space_after_steps = <<>>
    /\ sample_space = NoneSpace
    /\ surrogate_space = NoneSpace
    /\ unprojected_space = NoneSpace
    /\ sampling_strategy = NoSampling
    /\ progress = ProgressInit
    /\ last = NoCall
    /\ compressed = "never"
    /\ quant = NoQuant /\ embed = NoEmbed
    /\ boundary = NoBoundary /\ selection = NoSelection /\ factory = NoFactory
    /\ mixed = NoMixed
    /\ adaptstep = NoAdaptive
    /\ quantupd = NoQuantUpd
    /\ progop = Given("none", NoHistory)
    /\ compressor = NoCompressor
    /\ rangestep = NoRangeStep
    /\ e2e = NoEndToEnd
    /\ pointop = NoPointOp

NextRerank ==
    \/ \E hl \in RerankHistLists : RerankCompressSpace(hl)
    \/ \E history \in RerankHistories : RerankUpdateCompression(history)

SpecRerank == InitRerank /\ [][NextRerank]_vars

\* update_compression(history) with a history of observations re-ran the chain
\* from the original space
RestartedFromOriginal ==
    /\ progop.op = "update_compression" /\ HistTruthy(progop.history)
    /\ last.restarted /\ ~last.raised /\ last.start = "original"

\* the dimension steps that rank by the SHAP calculator
SHAPRanked == {i \in 1..Len(steps) : IsDimension(steps[i]) /\ steps[i].calc = "shap"}

\* the ranking of the step's numeric input parameters that the history gives
RankingFrom(history, names) ==
    ArgSort([k \in 1..Len(extract_numeric_hyperparameters(names)) |->
                OracleScore(history, extract_numeric_hyperparameters(names)[k])])

\* the ranking the step used in its last compress: that of the importances its
\* calculator returned, which are the ones its cache holds
RankingUsed(step) == ArgSort(step.cache.imp)

C28_RankedFromSomeHistory ==
    RestartedFromOriginal =>
        \A i \in SHAPRanked :
            \E v \in 1..MaxVal :
                RankingUsed(steps[i]) = RankingFrom(MkHistory(v), steps[i].input_space.names)

\* the re-compression from the original space ranked by an earlier history
C28_RankingReused ==
    /\ RestartedFromOriginal
    /\ \E i \in SHAPRanked :
          /\ steps[i].cache.valid
          /\ steps[i].cache.n_features = NumParams(original_space)
          /\ RankingUsed(steps[i]) #
                 RankingFrom(progop.history, steps[i].input_space.names)

C28_ReusedByFixedSHAPStep ==
    C28_RankingReused /\ Len(steps) = 2 /\ steps[1].kind = "shap"

(***************************************************************************)
(* The frame of update_compression, over the pipeline specification Spec.  *)
(***************************************************************************)
\* the adaptive target a step's update moves: current_topk of an adaptive
\* dimension step, max_num_values of a quantization step
AdaptiveTarget(step) ==
    CASE step.kind = "adaptive" -> step.current_topk
      [] step.kind = "quant" -> step.max_num_values
      [] OTHER -> 0

AdaptiveTargets(sts) == [i \in 1..Len(sts) |-> AdaptiveTarget(sts[i])]

\* the step is an update_compression call that returned False
ReturnedFalse == last'.op = "update_compression" /\ ~last'.restarted

SpacesKept ==
    UNCHANGED <<space_after_steps, surrogate_space, sample_space, unprojected_space,
                sampling_strategy>>

\* C29: update_compression returns True exactly when it re-ran compress_space;
\* whenever it returns False, in any state (also before the first compress_space
\* or with no original space set), no step's adaptive target (current_topk,
\* max_values) has changed and space_after_steps, the surrogate, sample and
\* unprojected spaces and the sampling strategy are unchanged by the call.
C29_FalseChangesNothing ==
    [][ReturnedFalse =>
          /\ AdaptiveTargets(steps') = AdaptiveTargets(steps)
          /\ SpacesKept]_vars

\* what the code keeps: a call that returned False leaves the spaces and the
\* sampling strategy alone, and leaves the targets alone when the pipeline has
\* an original space
C29_FalseKeepsSpaces ==
    [][ReturnedFalse =>
          /\ SpacesKept
          /\ ~original_space.none => AdaptiveTargets(steps') = AdaptiveTargets(steps)]_vars

\* the value update_compression returns is True exactly when compress_space was
\* re-run and completed
C29_TrueIffRerun ==
    \A history \in Histories :
        \A u \in {update_compression(Pipe, update_from_history(progress, history), history)} :
            /\ u.ret <=> (u.restarted /\ ~u.raised)
            /\ u.restarted <=> (u.updated_steps # <<>> /\ ~original_space.none)

\* an update_compression that returned False after a step moved its target
C29_TargetMovedWithoutRerun ==
    /\ last.op = "update_compression" /\ ~last.restarted
    /\ last.updated_steps # <<>>
    /\ original_space.none
    /\ \E i \in 1..Len(steps) :
          /\ steps[i].kind = "adaptive"
          /\ steps[i].current_topk # steps[i].initial_topk

C29_QuantTargetMovedWithoutRerun ==
    /\ last.op = "update_compression" /\ ~last.restarted
    /\ original_space.none
    /\ \E i \in 1..Len(steps) : steps[i].kind = "quant" /\ steps[i].max_num_values # 90

====
